---- MODULE Spec2Model ----
(***************************************************************************)
(* A model of the carousel generator:                                      *)
(*   - src/src/utils/textSplitter.ts   (splitTextIntoSlides and friends)   *)
(*   - src/src/utils/contentAnalyzer.ts (analyzeContent)                   *)
(*   - the slide generator (generateSlides, validateSlideOptions)          *)
(*   - src/src/utils/zipExporter.ts    (validateZipOptions,                *)
(*                                      exportSlidesAsZip)                 *)
(*   - src/src/App.tsx                 (the handlers of the component)     *)
(*                                                                         *)
(* A JavaScript string is a sequence of one-character strings.  An         *)
(* optional value (a field that may be undefined) is a sequence of length  *)
(* 0 (undefined) or 1 (the value).                                         *)
(***************************************************************************)
EXTENDS Integers, Sequences, FiniteSets, TLC

VARIABLES
    \* ---- splitTextIntoSlides(text, options) ----
    text,               \* the argument text
    options,            \* the argument options (Partial<TextSplitterOptions>)
    pc,                 \* position in splitTextIntoSlides
    sentences,          \* the sentences still to be visited by the for loop
    slides,             \* const slides: string[]
    currentSlide,       \* let currentSlide
    result,             \* the returned list (once pc = "done")
    \* ---- analyzeContent(text) ----
    content,            \* the argument text
    analysisPc,         \* position in analyzeContent
    labeled,            \* const labeled
    analysis,           \* the returned StructuredContent (once done)
    \* ---- validateTextForSlides(text) ----
    validatedText,      \* the argument text
    validation,         \* the returned object, once returned
    \* ---- validateSlideOptions(options) ----
    slideOptions,       \* the argument options
    slideValidation,    \* the returned object, once returned
    \* ---- validateZipOptions(options) ----
    zipOptions,         \* the argument options
    zipValidation,      \* the returned object, once returned
    \* ---- successive calls of splitTextIntoSlides ----
    defaultOptions,     \* the module-level object DEFAULT_OPTIONS
    callLog,            \* the calls made so far: text, options as left by the call, result
    \* ---- estimateReadingTime(text) ----
    readingText,        \* the argument text
    readingTime,        \* the returned number, once returned
    \* ---- generateSlides(textSlides, template) ----
    textSlides,         \* the argument textSlides
    template,           \* the argument template
    generated,          \* the returned list of slides, once returned
    \* ---- exportSlidesAsZip(slides, onProgress, zipOptions), called by handleExportZip ----
    exportedSlides,     \* the argument slides
    includeMetadata,    \* zipOptions.includeMetadata, when given
    exportCaller,       \* who made the call: handleExportZip ("App") or another caller
    exportPc,           \* position in exportSlidesAsZip
    exportPromise,      \* state of the returned promise
    totalSteps,         \* const totalSteps
    currentStep,        \* let currentStep
    slideIndex,         \* the loop variable i
    imageCalls,         \* the calls of generateSlideImage and how each ended
    progressEvents,     \* the objects passed to onProgress, in order
    zipEntries,         \* the files added to the JSZip object
    saveAsCalls,        \* number of calls of saveAs
    exportProgress,     \* appState.exportProgress
    \* ---- App (App.tsx): the state of the component and its pending calls ----
    inputText,          \* appState.inputText
    validationErrors,   \* the state validationErrors
    selectedTemplate,   \* appState.selectedTemplate
    optionsTemplate,    \* appState.generationOptions.template
    appSlides,          \* appState.slides
    isGenerating,       \* appState.isGenerating
    aiGeneratedContent, \* appState.aiGeneratedContent (null: undefined)
    showAIContent,      \* appState.showAIContent
    pendingCalls,       \* the calls of aiService.generateSlideContent not yet settled
    handled             \* the handler or continuation that ran last

splitVars == <<text, options, pc, sentences, slides, currentSlide, result>>
analyzeVars == <<content, analysisPc, labeled, analysis>>
validateVars == <<validatedText, validation>>
slideOptionVars == <<slideOptions, slideValidation>>
zipOptionVars == <<zipOptions, zipValidation>>
callVars == <<defaultOptions, callLog>>
readingVars == <<readingText, readingTime>>
generateVars == <<textSlides, template, generated>>
exportVars ==
    <<exportedSlides, includeMetadata, exportCaller, exportPc, exportPromise,
      totalSteps, currentStep, slideIndex, imageCalls, progressEvents,
      zipEntries, saveAsCalls, exportProgress>>
appVars ==
    <<inputText, validationErrors, selectedTemplate, optionsTemplate,
      appSlides, isGenerating, aiGeneratedContent, showAIContent,
      pendingCalls, handled>>

vars ==
    <<splitVars, analyzeVars, validateVars, slideOptionVars,
      zipOptionVars, callVars, readingVars, generateVars,
      exportVars, appVars>>

----------------------------------------------------------------------------
(* Optional values *)

None == <<>>
Some(x) == <<x>>
IsDefined(o) == o # <<>>
ValueOf(o) == o[1]

Min(a, b) == IF a <= b THEN a ELSE b

----------------------------------------------------------------------------
(* Characters and the string primitives the code uses *)

UpperCaseLetters ==
    {"A", "B", "C", "D", "E", "F", "G", "H", "I", "J", "K", "L", "M",
     "N", "O", "P", "Q", "R", "S", "T", "U", "V", "W", "X", "Y", "Z"}

\* \s of a regular expression, and what String.prototype.trim removes
IsWhitespace(c) == c \in {" ", "\n", "\t", "\r"}

\* [.!?]
IsSentenceEnd(c) == c \in {".", "!", "?"}

\* [A-Z]
IsUpperCase(c) == c \in UpperCaseLetters

\* the positions of s, in order, that satisfy keep
Positions(s, keep(_)) == SelectSeq([i \in 1..Len(s) |-> i], keep)

\* the concatenation of the strings ss[lo..hi]
RECURSIVE FlattenRange(_, _, _)
FlattenRange(ss, lo, hi) ==
    IF lo > hi THEN <<>>
    ELSE IF lo = hi THEN ss[lo]
    ELSE LET mid == (lo + hi) \div 2
         IN  FlattenRange(ss, lo, mid) \o FlattenRange(ss, mid + 1, hi)

\* the concatenation of a list of strings
Flatten(ss) == FlattenRange(ss, 1, Len(ss))

\* s.replace(/^\s+/, '')
TrimStart(s) ==
    LET kept == Positions(s, LAMBDA i : ~IsWhitespace(s[i]))
    IN  IF kept = <<>> THEN <<>> ELSE SubSeq(s, kept[1], Len(s))

\* s.replace(/\s+$/, '')
TrimEnd(s) ==
    LET kept == Positions(s, LAMBDA i : ~IsWhitespace(s[i]))
    IN  IF kept = <<>> THEN <<>> ELSE SubSeq(s, 1, kept[Len(kept)])

\* A faulty variant of Trim that removes nothing; C13_SlidesAreTrimmedWords
\* tells it from the code.
TrimNothing(s) == s

\* String.prototype.trim
Trim(s) == TrimEnd(TrimStart(s))

\* s.replace(/\s+/g, ' '): every maximal run of whitespace becomes one space
CollapseWhitespace(s) ==
    LET kept == Positions(s, LAMBDA i :
                    ~IsWhitespace(s[i]) \/ i = 1 \/ ~IsWhitespace(s[i - 1]))
    IN  [k \in 1..Len(kept) |->
            IF IsWhitespace(s[kept[k]]) THEN " " ELSE s[kept[k]]]

\* the last position before p that holds no whitespace, 0 if there is none
PreviousNonWhitespace(s, p) ==
    LET before == SubSeq(s, 1, p - 1)
        kept == Positions(before, LAMBDA i : ~IsWhitespace(before[i]))
    IN  IF kept = <<>> THEN 0 ELSE kept[Len(kept)]

\* the first position after p that holds no whitespace, 0 if there is none
NextNonWhitespace(s, p) ==
    LET after == SubSeq(s, p + 1, Len(s))
        kept == Positions(after, LAMBDA i : ~IsWhitespace(after[i]))
    IN  IF kept = <<>> THEN 0 ELSE p + kept[1]

\* /([.!?])\s*([A-Z])/ matches at position p
IsSentenceBreak(s, p) ==
    /\ IsSentenceEnd(s[p])
    /\ NextNonWhitespace(s, p) # 0
    /\ IsUpperCase(s[NextNonWhitespace(s, p)])

\* s.replace(/([.!?])\s*([A-Z])/g, '$1\n$2'): two matches never overlap, as
\* a match holds one [.!?] and that is its first character
InsertSentenceBreaks(s) ==
    LET piece(p) ==
            IF IsSentenceBreak(s, p) THEN <<s[p], "\n">>
            ELSE IF /\ IsWhitespace(s[p])
                    /\ PreviousNonWhitespace(s, p) # 0
                    /\ IsSentenceBreak(s, PreviousNonWhitespace(s, p))
                 THEN <<>>
                 ELSE <<s[p]>>
    IN  Flatten([p \in 1..Len(s) |-> piece(p)])

\* s.split(separator), the separators being the runs of the positions that
\* satisfy isSeparator
SplitAt(s, isSeparator(_)) ==
    LET n == Len(s)
        starts == Positions(s, LAMBDA p :
                      isSeparator(p) /\ (p = 1 \/ ~isSeparator(p - 1)))
        ends   == Positions(s, LAMBDA p :
                      isSeparator(p) /\ (p = n \/ ~isSeparator(p + 1)))
    IN  [k \in 1..(Len(starts) + 1) |->
            SubSeq(s, IF k = 1 THEN 1 ELSE ends[k - 1] + 1,
                      IF k = Len(starts) + 1 THEN n ELSE starts[k] - 1)]

\* s.split(/(?<=[.!?])\s+/): a separator is a run of whitespace that
\* follows a [.!?]
SplitAfterSentenceEnd(s) ==
    SplitAt(s, LAMBDA p :
        /\ IsWhitespace(s[p])
        /\ PreviousNonWhitespace(s, p) # 0
        /\ IsSentenceEnd(s[PreviousNonWhitespace(s, p)]))

\* s.split(' '): every space is a separator of its own
SplitOnSpace(s) ==
    LET spaces == Positions(s, LAMBDA p : s[p] = " ")
        n == Len(spaces)
    IN  [k \in 1..(n + 1) |->
            SubSeq(s, IF k = 1 THEN 1 ELSE spaces[k - 1] + 1,
                      IF k = n + 1 THEN Len(s) ELSE spaces[k] - 1)]

\* /[.!?]$/.test(s)
EndsWithSentenceEnd(s) == s # <<>> /\ IsSentenceEnd(s[Len(s)])

\* a + ' ' + b
JoinWithSpace(a, b) == a \o <<" ">> \o b

----------------------------------------------------------------------------
(* textSplitter.ts *)

DefaultMaxCharacters == 130
DefaultMinWordsPerSlide == 3

DefaultRespectSentenceBoundaries == TRUE

DEFAULT_OPTIONS ==
    [maxCharacters |-> DefaultMaxCharacters,
     respectSentenceBoundaries |-> DefaultRespectSentenceBoundaries,
     minWordsPerSlide |-> DefaultMinWordsPerSlide]

\* { ...defaults, ...o }: a new object, a field of o winning when o has it
Spread(defaults, o) ==
    [field \in DOMAIN defaults |->
        IF IsDefined(o[field]) THEN ValueOf(o[field]) ELSE defaults[field]]

\* { ...DEFAULT_OPTIONS, ...options }
MergeOptions(o) == Spread(DEFAULT_OPTIONS, o)

\* text.trim().split(/\s+/).filter(word => word.length > 0).length
getWordCount(t) ==
    Cardinality({i \in 1..Len(t) :
        ~IsWhitespace(t[i]) /\ (i = 1 \/ IsWhitespace(t[i - 1]))})

\* text.trim().replace(/\s+/g, ' ').replace(/([.!?])\s*([A-Z])/g, '$1\n$2')
CleanText(t) == InsertSentenceBreaks(CollapseWhitespace(Trim(t)))

\* cleanText.split(/(?<=[.!?])\s+/).filter(sentence => sentence.trim().length > 0)
ExtractSentences(t) ==
    SelectSeq(SplitAfterSentenceEnd(CleanText(t)),
              LAMBDA sentence : Len(Trim(sentence)) > 0)

\* the for loop of splitLongSentence, from the words still to be visited
RECURSIVE SplitWords(_, _, _, _, _)
SplitWords(words, done, cur, maxCharacters, minWords) ==
    IF words = <<>> THEN [slides |-> done, remainder |-> cur]
    ELSE LET word == Head(words)
         IN  IF cur # <<>> /\ Len(JoinWithSpace(cur, word)) > maxCharacters
             THEN IF getWordCount(cur) >= minWords
                  THEN SplitWords(Tail(words), Append(done, Trim(cur)), word,
                                  maxCharacters, minWords)
                  ELSE SplitWords(Tail(words), done, Trim(JoinWithSpace(cur, word)),
                                  maxCharacters, minWords)
             ELSE SplitWords(Tail(words), done,
                             IF cur # <<>> THEN JoinWithSpace(cur, word) ELSE word,
                             maxCharacters, minWords)

\* A faulty variant of splitLongSentence that flushes the buffer whatever
\* its word count; C23_OnlyRemainderShort tells it from the code.
FlushShortBuffers(sentence, maxCharacters, minWords) ==
    SplitWords(SplitOnSpace(sentence), <<>>, <<>>, maxCharacters, 0)

\* A faulty variant of splitLongSentence that leaves the buffer whole;
\* C22_LengthOrFewWords tells it from the code.
KeepLongSentence(sentence, maxCharacters, minWords) ==
    [slides |-> <<>>, remainder |-> sentence]

splitLongSentence(sentence, maxCharacters, minWords) ==
    SplitWords(SplitOnSpace(sentence), <<>>, <<>>, maxCharacters, minWords)

PeriodMinLength == 10
PeriodMinWords == 3

\* A faulty variant of EnsureSentenceEnding that never appends a period;
\* C4_ExampleOutput tells it from the code.
KeepSlide(slide) == slide

\* A faulty variant of EnsureSentenceEnding that ends every slide without
\* final punctuation, whatever its length and its number of words;
\* C21_PeriodAppended tells it from the code.
AlwaysEndSentence(slide) ==
    IF ~EndsWithSentenceEnd(slide) THEN slide \o <<".">> ELSE slide

\* the last .map of postProcessSlides
EnsureSentenceEnding(slide) ==
    IF ~EndsWithSentenceEnd(slide) /\ Len(slide) > PeriodMinLength
       /\ Len(SplitOnSpace(slide)) >= PeriodMinWords
    THEN slide \o <<".">>
    ELSE slide

MapSeq(f(_), s) == [i \in 1..Len(s) |-> f(s[i])]

\* A faulty variant of postProcessSlides that drops every slide of fewer
\* than minWordsPerSlide words; C25_NonBlankGivesSlide tells it from the code.
DropShortSlides(ss, o) ==
    LET trimmed  == MapSeq(Trim, ss)
        enough   == SelectSeq(trimmed, LAMBDA slide :
                        Len(slide) > 0
                        /\ getWordCount(slide) >= o.minWordsPerSlide)
    IN  MapSeq(EnsureSentenceEnding, enough)

postProcessSlides(ss, o) ==
    LET trimmed  == MapSeq(Trim, ss)
        nonEmpty == SelectSeq(trimmed, LAMBDA slide : Len(slide) > 0)
        enough   == SelectSeq(nonEmpty, LAMBDA slide :
                        getWordCount(slide) >= Min(o.minWordsPerSlide, 1))
    IN  MapSeq(EnsureSentenceEnding, enough)

----------------------------------------------------------------------------
(* contentAnalyzer.ts *)

LowerCaseLetters ==
    {"a", "b", "c", "d", "e", "f", "g", "h", "i", "j", "k", "l", "m",
     "n", "o", "p", "q", "r", "s", "t", "u", "v", "w", "x", "y", "z"}

Digits == {"0", "1", "2", "3", "4", "5", "6", "7", "8", "9"}

UpperCaseSeq ==
    <<"A", "B", "C", "D", "E", "F", "G", "H", "I", "J", "K", "L", "M",
      "N", "O", "P", "Q", "R", "S", "T", "U", "V", "W", "X", "Y", "Z">>

LowerCaseSeq ==
    <<"a", "b", "c", "d", "e", "f", "g", "h", "i", "j", "k", "l", "m",
      "n", "o", "p", "q", "r", "s", "t", "u", "v", "w", "x", "y", "z">>

LowerChar(c) ==
    IF c \in UpperCaseLetters
    THEN LowerCaseSeq[CHOOSE i \in 1..Len(UpperCaseSeq) : UpperCaseSeq[i] = c]
    ELSE c

\* String.prototype.toLowerCase
ToLowerCase(s) == [i \in 1..Len(s) |-> LowerChar(s[i])]

\* The curly quotes are single characters, written by name.
LeftDoubleQuote == "ldquo"
RightDoubleQuote == "rdquo"
LeftSingleQuote == "lsquo"
RightSingleQuote == "rsquo"

\* [\u201C"']
IsOpeningQuote(c) == c \in {LeftDoubleQuote, "\"", "'"}

\* [\u201D"']
IsClosingQuote(c) == c \in {RightDoubleQuote, "\"", "'"}

\* the rest of a string from index i on
From(t, i) == SubSeq(t, i, Len(t))

\* the length of the whitespace run that starts at index i
WhitespaceRun(t, i) == Len(From(t, i)) - Len(TrimStart(From(t, i)))

\* a case-insensitive literal (given in lower case) matches at index i
MatchesAt(t, i, literal) ==
    /\ i >= 1
    /\ i + Len(literal) - 1 <= Len(t)
    /\ ToLowerCase(SubSeq(t, i, i + Len(literal) - 1)) = literal

Occurrences(t, literal) == {i \in 1..Len(t) : MatchesAt(t, i, literal)}

\* a literal matches exactly (String.prototype.includes / indexOf)
OccursAt(t, i, literal) ==
    /\ i >= 1
    /\ i + Len(literal) - 1 <= Len(t)
    /\ SubSeq(t, i, i + Len(literal) - 1) = literal

Includes(t, literal) == \E i \in 1..(Len(t) + 1) : OccursAt(t, i, literal)

Least(S) == CHOOSE x \in S : \A y \in S : x <= y
Greatest(S) == CHOOSE x \in S : \A y \in S : x >= y

TitleLabel == <<"t", "i", "t", "l", "e", ":">>
BodyLabel == <<"b", "o", "d", "y", ":">>
VisualLabel == <<"v", "i", "s", "u", "a", "l", ":">>
BodyWord == <<"b", "o", "d", "y">>
VisualWord == <<"v", "i", "s", "u", "a", "l">>

\* ([\s\S]+?)[\u201D"'](?=\s|$) from index start: the index of the closing quote
\* of the shortest capture, or 0 when there is none
ClosingQuoteAfter(t, start) ==
    LET ends == {e \in (start + 1)..Len(t) :
                    /\ IsClosingQuote(t[e])
                    /\ (e = Len(t) \/ IsWhitespace(t[e + 1]))}
    IN  IF start > Len(t) \/ ends = {} THEN 0 ELSE Least(ends)

\* \s*[\u201C"']?([\s\S]+?)[\u201D"'](?=\s|$) at index q, the greedy \s* giving back
\* down from k whitespace characters: the captured group
RECURSIVE QuotedValueFrom(_, _, _)
QuotedValueFrom(t, q, k) ==
    IF k < 0 THEN None
    ELSE LET s == q + k
             afterQuote == IF s <= Len(t) /\ IsOpeningQuote(t[s])
                           THEN ClosingQuoteAfter(t, s + 1) ELSE 0
             noQuote == ClosingQuoteAfter(t, s)
         IN  IF afterQuote # 0 THEN Some(SubSeq(t, s + 1, afterQuote - 1))
             ELSE IF noQuote # 0 THEN Some(SubSeq(t, s, noQuote - 1))
             ELSE QuotedValueFrom(t, q, k - 1)

\* (?=$|\s*Body|\s*Visual) at index e, for the words in stops
LookaheadHolds(t, e, stops) ==
    \/ e > Len(t)
    \/ \E word \in stops : MatchesAt(TrimStart(From(t, e)), 1, word)

\* \s*([\s\S]+?)(?=$|...) at index q, the greedy \s* giving back down from k
RECURSIVE UnquotedValueFrom(_, _, _, _)
UnquotedValueFrom(t, q, k, stops) ==
    IF k < 0 THEN None
    ELSE LET s == q + k
         IN  IF s <= Len(t)
             THEN Some(SubSeq(t, s,
                    Least({e \in (s + 1)..(Len(t) + 1) :
                              LookaheadHolds(t, e, stops)}) - 1))
             ELSE UnquotedValueFrom(t, q, k - 1, stops)

\* text.match(/Label:\s*[\u201C"']?([\s\S]+?)[\u201D"'](?=\s|$)/i)?.[1]
QuotedMatch(t, label) ==
    LET value(p) == QuotedValueFrom(t, p + Len(label),
                                    WhitespaceRun(t, p + Len(label)))
        starts == {p \in Occurrences(t, label) : IsDefined(value(p))}
    IN  IF starts = {} THEN None ELSE value(Least(starts))

\* text.match(/Label:\s*([\s\S]+?)(?=$|\s*Stop...)/i)?.[1]
UnquotedMatch(t, label, stops) ==
    LET value(p) == UnquotedValueFrom(t, p + Len(label),
                                      WhitespaceRun(t, p + Len(label)), stops)
        starts == {p \in Occurrences(t, label) : IsDefined(value(p))}
    IN  IF starts = {} THEN None ELSE value(Least(starts))

\* a || b of two match results
OrElse(a, b) == IF IsDefined(a) THEN a ELSE b

\* match?.[1]?.trim()
TrimmedGroup(m) == IF IsDefined(m) THEN Some(Trim(ValueOf(m))) ELSE None

\* The backtick is a single character, written by name.
Backtick == "backtick"

Fence == <<Backtick, Backtick, Backtick>>

\* s.match(/```([\s\S]*?)```/): [whole |-> match[0], inner |-> match[1]]
FencedMatch(s) ==
    LET closing(i) == {j \in (i + 3)..Len(s) : OccursAt(s, j, Fence)}
        opening == {i \in 1..Len(s) : OccursAt(s, i, Fence) /\ closing(i) # {}}
    IN  IF opening = {} THEN None
        ELSE LET i == Least(opening)
                 j == Least(closing(i))
             IN  Some([whole |-> SubSeq(s, i, j + 2),
                       inner |-> SubSeq(s, i + 3, j - 1)])

\* s.match(/\{[\s\S]*\}/)?.[0]
BracedMatch(s) ==
    LET closing(i) == {j \in (i + 1)..Len(s) : s[j] = "}"}
        opening == {i \in 1..Len(s) : s[i] = "{" /\ closing(i) # {}}
    IN  IF opening = {} THEN None
        ELSE LET i == Least(opening)
             IN  Some(SubSeq(s, i, Greatest(closing(i))))

\* a string is truthy when it is defined and not empty
Truthy(o) == IsDefined(o) /\ ValueOf(o) # <<>>

extractLabeled(t) ==
    LET titleMatch == OrElse(QuotedMatch(t, TitleLabel),
                             UnquotedMatch(t, TitleLabel, {BodyWord, VisualWord}))
        bodyMatch == OrElse(QuotedMatch(t, BodyLabel),
                            UnquotedMatch(t, BodyLabel, {VisualWord}))
        visualMatch == OrElse(QuotedMatch(t, VisualLabel),
                              UnquotedMatch(t, VisualLabel, {}))
        visualRaw == TrimmedGroup(visualMatch)
        fenced == IF Truthy(visualRaw) THEN FencedMatch(ValueOf(visualRaw)) ELSE None
        braced == IF Truthy(visualRaw) THEN BracedMatch(ValueOf(visualRaw)) ELSE None
    IN  [title |-> TrimmedGroup(titleMatch),
         body |-> TrimmedGroup(bodyMatch),
         visual |-> visualRaw,
         visualSnippet |->
            IF IsDefined(fenced) THEN Some(Trim(ValueOf(fenced).inner))
            ELSE IF IsDefined(braced) THEN Some(Trim(ValueOf(braced)))
            ELSE None,
         tags |-> None]

Keywords ==
    { <<"a", "p", "i">>, <<"e", "n", "d", "p", "o", "i", "n", "t">>,
      <<"r", "e", "s", "p", "o", "n", "s", "e">>, <<"j", "s", "o", "n">>,
      <<"p", "a", "y", "l", "o", "a", "d">>, <<"l", "e", "a", "k">>,
      <<"s", "e", "c", "r", "e", "t">>, <<"p", "i", "i">>, <<"s", "s", "n">>,
      <<"t", "o", "k", "e", "n">>,
      <<"p", "a", "s", "s", "w", "o", "r", "d">> }

KeywordVisual ==
    <<"A", "P", "I", " ", "r", "e", "s", "p", "o", "n", "s", "e", " ",
      "J", "S", "O", "N", " ", "w", "i", "t", "h", " ", "r", "e", "d", " ",
      "h", "i", "g", "h", "l", "i", "g", "h", "t", "s", " ", "o", "n", " ",
      "s", "e", "n", "s", "i", "t", "i", "v", "e", " ",
      "f", "i", "e", "l", "d", "s">>

SnippetVisual ==
    <<"C", "o", "d", "e", "/", "J", "S", "O", "N", " ",
      "s", "n", "i", "p", "p", "e", "t", " ",
      "d", "e", "t", "e", "c", "t", "e", "d">>

\* A faulty variant of detectKeywordsForVisual that looks for the keywords
\* as written, in lower case only; C16_KeywordVisual tells it from the code.
detectKeywordsAsWritten(t) ==
    IF \E k \in Keywords : Includes(t, k) THEN Some(KeywordVisual) ELSE None

detectKeywordsForVisual(t) ==
    LET lower == ToLowerCase(t)
    IN  IF \E k \in Keywords : Includes(lower, k) THEN Some(KeywordVisual) ELSE None

\* text.replace(/\r\n|\r/g, "\n").trim()
RECURSIVE NormalizeLineEndings(_)
NormalizeLineEndings(s) ==
    IF s = <<>> THEN <<>>
    ELSE IF Head(s) = "\r"
         THEN <<"\n">> \o NormalizeLineEndings(
                  IF Len(s) >= 2 /\ s[2] = "\n" THEN Tail(Tail(s)) ELSE Tail(s))
         ELSE <<Head(s)>> \o NormalizeLineEndings(Tail(s))

normalize(t) == Trim(NormalizeLineEndings(t))

RECURSIVE DropNewlines(_)
DropNewlines(s) ==
    IF s # <<>> /\ Head(s) = "\n" THEN DropNewlines(Tail(s)) ELSE s

\* s.split(/\n+/): cur is the piece being read
RECURSIVE SplitLines(_, _)
SplitLines(s, cur) ==
    IF s = <<>> THEN <<cur>>
    ELSE IF Head(s) = "\n"
         THEN <<cur>> \o SplitLines(DropNewlines(s), <<>>)
         ELSE SplitLines(Tail(s), Append(cur, Head(s)))

\* s.replace(/\n{2,}/g, "\n")
RECURSIVE CollapseBlankLines(_)
CollapseBlankLines(s) ==
    IF s = <<>> THEN <<>>
    ELSE IF Head(s) = "\n"
         THEN <<"\n">> \o CollapseBlankLines(DropNewlines(s))
         ELSE <<Head(s)>> \o CollapseBlankLines(Tail(s))

\* s.replace(pattern, ""), pattern a string: its first occurrence is removed
RemoveFirst(s, pattern) ==
    LET at == {i \in 1..(Len(s) + 1) : OccursAt(s, i, pattern)}
    IN  IF at = {} THEN s
        ELSE SubSeq(s, 1, Least(at) - 1) \o From(s, Least(at) + Len(pattern))

\* /["'\u201C\u201D\u2018\u2019]|[\u{1F300}-\u{1FAFF}]/u.test(line); no character of the
\* model's alphabet lies in U+1F300..U+1FAFF
HasEmojiOrQuotes(line) ==
    \E i \in 1..Len(line) :
        line[i] \in {"\"", "'", LeftDoubleQuote, RightDoubleQuote,
                     LeftSingleQuote, RightSingleQuote}

\* /:\s*$/.test(line)
EndsWithColon(line) == TrimEnd(line) # <<>> /\ TrimEnd(line)[Len(TrimEnd(line))] = ":"

\* line.replace(/:\s*$/, "")
StripTrailingColon(line) ==
    IF EndsWithColon(line) THEN SubSeq(line, 1, Len(TrimEnd(line)) - 1) ELSE line

ShortLineLength == 80
TitleSentenceLength == 120

\* [a-z0-9_] under the i flag
IsTagChar(c) == c \in LowerCaseLetters \cup UpperCaseLetters \cup Digits \cup {"_"}

RECURSIVE TagRun(_)
TagRun(s) ==
    IF s # <<>> /\ IsTagChar(Head(s)) THEN <<Head(s)>> \o TagRun(Tail(s)) ELSE <<>>

\* s.match(/#[a-z0-9_]+/gi) || []
RECURSIVE TagMatches(_)
TagMatches(s) ==
    IF s = <<>> THEN <<>>
    ELSE IF Head(s) = "#" /\ TagRun(Tail(s)) # <<>>
         THEN <<<<"#">> \o TagRun(Tail(s))>>
              \o TagMatches(SubSeq(s, Len(TagRun(Tail(s))) + 2, Len(s)))
         ELSE TagMatches(Tail(s))

\* A faulty variant of Distinct that keeps every element;
\* C17_TagsDistinctLowerCase tells it from the code.
KeepDuplicates(xs, seen) == xs

\* Array.from(new Set(xs)): the first occurrence of each element, in order
RECURSIVE Distinct(_, _)
Distinct(xs, seen) ==
    IF xs = <<>> THEN <<>>
    ELSE IF Head(xs) \in seen THEN Distinct(Tail(xs), seen)
    ELSE <<Head(xs)>> \o Distinct(Tail(xs), seen \cup {Head(xs)})

heuristicTitle(normalized) ==
    LET lines == SelectSeq(MapSeq(Trim, SplitLines(normalized, <<>>)),
                           LAMBDA l : l # <<>>)
        marked == {i \in 1..Len(lines) :
                      /\ Len(lines[i]) <= ShortLineLength
                      /\ (HasEmojiOrQuotes(lines[i]) \/ EndsWithColon(lines[i]))}
        fromLine == IF marked = {} THEN None
                    ELSE Some(StripTrailingColon(lines[Least(marked)]))
        sentence == Trim(SplitAfterSentenceEnd(normalized)[1])
    IN  IF Truthy(fromLine) THEN fromLine
        ELSE IF sentence # <<>> /\ Len(sentence) <= TitleSentenceLength
             THEN Some(sentence)
             ELSE fromLine

heuristics(t) ==
    LET normalized == normalize(t)
        title == heuristicTitle(normalized)
        fenced == FencedMatch(normalized)
        braced == BracedMatch(normalized)
        withoutTitle == IF Truthy(title)
                        THEN Trim(RemoveFirst(normalized, ValueOf(title)))
                        ELSE normalized
        withoutBlock == IF IsDefined(fenced) /\ ValueOf(fenced).whole # <<>>
                        THEN Trim(RemoveFirst(withoutTitle, ValueOf(fenced).whole))
                        ELSE IF IsDefined(braced) /\ ValueOf(braced) # <<>>
                             THEN Trim(RemoveFirst(withoutTitle, ValueOf(braced)))
                             ELSE withoutTitle
    IN  [title |-> title,
         body |-> Some(Trim(CollapseBlankLines(withoutBlock))),
         visual |-> IF IsDefined(fenced) \/ IsDefined(braced)
                    THEN Some(SnippetVisual)
                    ELSE detectKeywordsForVisual(normalized),
         visualSnippet |->
            IF IsDefined(fenced) THEN Some(Trim(ValueOf(fenced).inner))
            ELSE IF IsDefined(braced) THEN Some(Trim(ValueOf(braced)))
            ELSE None,
         tags |-> Some(Distinct(MapSeq(ToLowerCase, TagMatches(normalized)), {}))]

\* A faulty variant of hasAnyLabel that looks at the title only;
\* C7_LabeledWins tells it from the code.
hasTitleLabel(l) == Truthy(l.title)

\* labeled.title || labeled.body || labeled.visual
hasAnyLabel(l) ==
    Truthy(l.title) \/ Truthy(l.body) \/ Truthy(l.visual)

analyzeContent(t) ==
    IF hasAnyLabel(extractLabeled(t)) THEN extractLabeled(t) ELSE heuristics(t)

----------------------------------------------------------------------------
(* JavaScript numbers are IEEE 754 binary64 values.  A non-negative one is  *)
(* written bits * 2^exp here: bits is its significand in binary, most       *)
(* significant bit first, without leading zeros and of at most             *)
(* MantissaBits bits; zero has no bits.                                    *)

MantissaBits == 53

\* the number of binary digits of a natural number below 2^31
BitLength(n) == Cardinality({k \in 0..30 : 2^k <= n})

\* the binary digits of a natural number, most significant first
BinaryOf(n) == [i \in 1..BitLength(n) |-> (n \div 2^(BitLength(n) - i)) % 2]

\* the number a short sequence of binary digits stands for
RECURSIVE BitsToNumber(_)
BitsToNumber(bits) ==
    IF bits = <<>> THEN 0
    ELSE IF Len(bits) = 1 THEN bits[1]
    ELSE LET half == Len(bits) \div 2
         IN  BitsToNumber(SubSeq(bits, 1, half)) * 2^(Len(bits) - half)
                + BitsToNumber(SubSeq(bits, half + 1, Len(bits)))

\* bits + 1
Increment(bits) ==
    LET zeros == {i \in 1..Len(bits) : bits[i] = 0}
    IN  IF zeros = {} THEN <<1>> \o [i \in 1..Len(bits) |-> 0]
        ELSE [i \in 1..Len(bits) |->
                IF i < Greatest(zeros) THEN bits[i]
                ELSE IF i = Greatest(zeros) THEN 1 ELSE 0]

\* The binary64 value nearest to (bits + f) * 2^exp, where 0 <= f < 1 and
\* f > 0 exactly when inexact: round to nearest, ties to even.  An inexact
\* value is given with more than MantissaBits bits.
RoundToDouble(bits, exp, inexact) ==
    IF Len(bits) <= MantissaBits THEN [bits |-> bits, exp |-> exp]
    ELSE LET kept == SubSeq(bits, 1, MantissaBits)
             dropped == SubSeq(bits, MantissaBits + 1, Len(bits))
             beyondHalf == inexact \/ \E i \in 2..Len(dropped) : dropped[i] = 1
             up == dropped[1] = 1 /\ (beyondHalf \/ kept[MantissaBits] = 1)
             rounded == IF up THEN Increment(kept) ELSE kept
             e == exp + Len(dropped)
         IN  IF Len(rounded) > MantissaBits
             THEN [bits |-> SubSeq(rounded, 1, MantissaBits), exp |-> e + 1]
             ELSE [bits |-> rounded, exp |-> e]

\* 2^k modulo d, for d below 2^15
RECURSIVE PowerOfTwoMod(_, _)
PowerOfTwoMod(k, d) ==
    IF k = 0 THEN 1 % d
    ELSE LET h == PowerOfTwoMod(k \div 2, d)
         IN  (((h * h) % d) * (IF k % 2 = 1 THEN 2 ELSE 1)) % d

\* the remainder of the long division of n by d after k fractional digits
RemainderAfter(n, d, k) == ((n % d) * PowerOfTwoMod(k, d)) % d

\* the binary digit of weight 2^(-k) of n / d
QuotientBit(n, d, k) ==
    IF k <= 0 THEN ((n \div d) \div 2^(-k)) % 2
    ELSE (2 * RemainderAfter(n, d, k - 1)) \div d

\* n / d in binary64, for a natural number n and a positive integer d below
\* 2^15: the quotient is developed to MantissaBits + 1 digits from its
\* leading one, and rounded
Divide(n, d) ==
    IF n = 0 THEN [bits |-> <<>>, exp |-> 0]
    ELSE LET lead == IF n >= d THEN 1 - BitLength(n \div d)
                     ELSE Least({k \in 1..16 : QuotientBit(n, d, k) = 1})
             last == lead + MantissaBits
         IN  RoundToDouble([i \in 1..(MantissaBits + 1) |->
                                QuotientBit(n, d, lead + i - 1)],
                           -last, RemainderAfter(n, d, last) # 0)

\* The product of a significand and a small natural number k is computed in
\* pieces of ChunkWidth(k) digits, counted from the last digit, so that a
\* piece times k plus a carry stays below 2^31.
ChunkWidth(k) == 30 - BitLength(k)

\* the j-th piece of bits, as a number (the first piece is the last digits)
Chunk(bits, k, j) ==
    LET last == Len(bits) - (j - 1) * ChunkWidth(k)
        first == IF last - ChunkWidth(k) + 1 > 1
                 THEN last - ChunkWidth(k) + 1 ELSE 1
    IN  BitsToNumber(SubSeq(bits, first, last))

\* what the pieces before the j-th carry into it
RECURSIVE CarryInto(_, _, _)
CarryInto(bits, k, j) ==
    IF j = 1 THEN 0
    ELSE (Chunk(bits, k, j - 1) * k + CarryInto(bits, k, j - 1))
            \div 2^ChunkWidth(k)

\* the binary digits of bits * k, exactly: those of the first piece times k
\* plus its carry, then the digits the other pieces leave under their carries
TimesBits(bits, k) ==
    LET chunks == (Len(bits) + ChunkWidth(k) - 1) \div ChunkWidth(k)
        under == (chunks - 1) * ChunkWidth(k)
        digit(p) ==   \* the digit of weight 2^p
            LET j == p \div ChunkWidth(k) + 1
            IN  ((Chunk(bits, k, j) * k + CarryInto(bits, k, j))
                    \div 2^(p % ChunkWidth(k))) % 2
    IN  IF bits = <<>> THEN <<>>
        ELSE BinaryOf(Chunk(bits, k, chunks) * k + CarryInto(bits, k, chunks))
                \o [i \in 1..under |-> digit(under - i)]

\* x * k in binary64, for a binary64 value x and a small natural number k
Times(x, k) == RoundToDouble(TimesBits(x.bits, k), x.exp, FALSE)

\* Math.ceil(x), for a value whose ceiling is a small integer
MathCeil(x) ==
    LET n == Len(x.bits)
    IN  IF x.exp >= 0 THEN BitsToNumber(x.bits) * 2^(x.exp)
        ELSE LET whole == IF n + x.exp <= 0 THEN <<>>
                          ELSE SubSeq(x.bits, 1, n + x.exp)
                 first == IF n + x.exp <= 0 THEN 1 ELSE n + x.exp + 1
             IN  BitsToNumber(whole)
                    + (IF \E i \in first..n : x.bits[i] = 1 THEN 1 ELSE 0)

----------------------------------------------------------------------------
(* textSplitter.ts: estimateReadingTime *)

wordsPerMinute == 200
SecondsPerMinute == 60
MinReadingTime == 3

\* Math.max(3, Math.ceil((wordCount / wordsPerMinute) * 60))
ReadingTimeOf(wordCount) ==
    LET seconds == MathCeil(Times(Divide(wordCount, wordsPerMinute),
                                  SecondsPerMinute))
    IN  IF seconds > MinReadingTime THEN seconds ELSE MinReadingTime

estimateReadingTime(t) == ReadingTimeOf(getWordCount(t))

----------------------------------------------------------------------------
(* slideGenerator: generateSlides *)

DecimalDigits == <<"0", "1", "2", "3", "4", "5", "6", "7", "8", "9">>

\* A faulty variant of ToDecimalString that writes the last digit only;
\* C20_SlideRecords tells it from the code.
LastDigitOnly(n) == <<DecimalDigits[(n % 10) + 1]>>

\* String(n) for a natural number, as a template literal interpolates it
RECURSIVE ToDecimalString(_)
ToDecimalString(n) ==
    IF n < 10 THEN <<DecimalDigits[n + 1]>>
    ELSE Append(ToDecimalString(n \div 10), DecimalDigits[(n % 10) + 1])

SlideIdPrefix == <<"s", "l", "i", "d", "e", "-">>

\* textSlides.map((content, index) => ({ id: `slide-${index + 1}`, content,
\*   template, slideNumber: index + 1, totalSlides: textSlides.length }))
generateSlides(chunks, t) ==
    [index \in 1..Len(chunks) |->
        [id |-> SlideIdPrefix \o ToDecimalString(index),
         content |-> chunks[index],
         template |-> t,
         slideNumber |-> index,
         totalSlides |-> Len(chunks)]]

----------------------------------------------------------------------------
(* exportSlidesAsZip (zipExporter.ts) *)

\* DEFAULT_ZIP_OPTIONS.includeMetadata
DefaultIncludeMetadata == TRUE

\* opts.includeMetadata of opts = { ...DEFAULT_ZIP_OPTIONS, ...zipOptions }
MergedIncludeMetadata(given) ==
    IF IsDefined(given) THEN ValueOf(given) ELSE DefaultIncludeMetadata

\* A count of the steps that forgets the metadata file.
SlidesOnly(ss, given) == Len(ss)

\* const totalSteps = slides.length + (opts.includeMetadata ? 1 : 0)
TotalStepsOf(ss, given) ==
    Len(ss) + (IF MergedIncludeMetadata(given) THEN 1 ELSE 0)

\* The object updateProgress passes to onProgress (the message is left out).
Progress(cur, tot, status) ==
    [current |-> cur, total |-> tot, status |-> status]

\* appState.exportProgress as the component is mounted
IdleProgress == Progress(0, 0, "idle")

\* The object handleExportZip stores when the export has failed
FailedProgress == Progress(0, 0, "error")

\* zip.file(filename, imageBlob) for a slide, zip.file('metadata.json', ...)
SlideEntry(slide) == [kind |-> "slide", slideNumber |-> slide.slideNumber]
MetadataEntry == [kind |-> "metadata", slideNumber |-> 0]

\* Lines 61-70, run when the loop is over: the metadata file, if requested,
\* and the first 'exporting' event.  step, files and events are the values
\* of currentStep, the entries of the zip and the events as the loop ends.
AfterLoop(step, files, events, given, tot) ==
    LET withMetadata == MergedIncludeMetadata(given)
        stepAfter == IF withMetadata THEN step + 1 ELSE step
        announced == IF withMetadata
                     THEN Append(events, Progress(step, tot, "generating"))
                     ELSE events
    IN  [currentStep |-> stepAfter,
         zipEntries |-> IF withMetadata THEN Append(files, MetadataEntry)
                        ELSE files,
         progressEvents |->
             Append(announced, Progress(stepAfter, tot, "exporting"))]

\* The value the callback of handleExportZip leaves in exportProgress after
\* the events have been passed to it: the last one.
LastProgress(events, before) ==
    IF events = <<>> THEN before ELSE events[Len(events)]

----------------------------------------------------------------------------
(* App (App.tsx) *)

\* constants/templates: TEMPLATES (by id) and DEFAULT_TEMPLATE = TEMPLATES[0]
DEFAULT_TEMPLATE == [id |-> "regular"]
TEMPLATES == {DEFAULT_TEMPLATE, [id |-> "minimal"], [id |-> "bold"]}

\* The condition of the early return of handleGenerateSlides (line 92)
ReturnsEarly(t, errors) == Trim(t) = <<>> \/ Len(errors) > 0

\* The attribute disabled of the Generate button (line 436)
ButtonDisabled(t, errors, generating) ==
    Trim(t) = <<>> \/ Len(errors) > 0 \/ generating

\* `${aiSlide.title}\n\n${aiSlide.body}`
SlideContent(aiSlide) == aiSlide.title \o <<"\n", "\n">> \o aiSlide.body

\* aiResult.slides.map(...) of lines 106-112, with the template held by the
\* appState of the render in which Generate was clicked
SlidesOfResult(aiResult, t) ==
    [k \in 1..Len(aiResult.slides) |->
        [id |-> SlideIdPrefix \o ToDecimalString(k),
         content |-> SlideContent(aiResult.slides[k]),
         template |-> t,
         slideNumber |-> k,
         totalSlides |-> aiResult.totalSlides]]

----------------------------------------------------------------------------
(* validateTextForSlides (textSplitter.ts) *)

MinTextLength == 10
MinTextWords == 3
LongTextLength == 10000
LongTextWords == 2000

ErrEmpty == "Text cannot be empty"
ErrTooShort == "Text is too short (minimum 10 characters)"
ErrTooFewWords == "Text must contain at least 3 words"
WarnVeryLong == "Text is very long and may generate many slides"
WarnManyWords == "Text contains many words and may take time to process"

\* the array after: if (condition) array.push(message)
PushIf(condition, array, message) ==
    IF condition THEN Append(array, message) ELSE array

\* A faulty variant of validateTextForSlides in which a warning makes the
\* text invalid; C9_ValidationReport tells it from the code.
validateTextWarningsInvalid(t) ==
    LET wordCount == getWordCount(t)
        errors == PushIf(wordCount < MinTextWords,
                    PushIf(Len(t) < MinTextLength,
                      PushIf(Trim(t) = <<>>, <<>>, ErrEmpty),
                      ErrTooShort),
                    ErrTooFewWords)
        warnings == PushIf(wordCount > LongTextWords,
                      PushIf(Len(t) > LongTextLength, <<>>, WarnVeryLong),
                      WarnManyWords)
    IN  [isValid |-> Len(errors) = 0 /\ Len(warnings) = 0,
         errors |-> errors, warnings |-> warnings]

validateTextForSlides(t) ==
    LET wordCount == getWordCount(t)
        errors == PushIf(wordCount < MinTextWords,
                    PushIf(Len(t) < MinTextLength,
                      PushIf(Trim(t) = <<>>, <<>>, ErrEmpty),
                      ErrTooShort),
                    ErrTooFewWords)
        warnings == PushIf(wordCount > LongTextWords,
                      PushIf(Len(t) > LongTextLength, <<>>, WarnVeryLong),
                      WarnManyWords)
    IN  [isValid |-> Len(errors) = 0, errors |-> errors, warnings |-> warnings]

----------------------------------------------------------------------------
(* validateSlideOptions (slide generator) *)

MinDimension == 100
MaxDimension == 4000

\* quality is counted in hundredths: 0.1 is 10 and 1 is 100
MinQuality == 10
MaxQuality == 100

ErrWidth == "Width must be between 100 and 4000 pixels"
ErrHeight == "Height must be between 100 and 4000 pixels"
ErrQuality == "Quality must be between 0.1 and 1"
ErrFormat == "Format must be either \"png\" or \"jpg\""

\* a number is truthy when it is defined and not 0
TruthyNumber(o) == IsDefined(o) /\ ValueOf(o) # 0

\* a string atom is truthy when it is defined and not ''
TruthyAtom(o) == IsDefined(o) /\ ValueOf(o) # ""

validateSlideOptions(o) ==
    LET errors ==
          PushIf(TruthyAtom(o.format) /\ ValueOf(o.format) \notin {"png", "jpg"},
            PushIf(TruthyNumber(o.quality)
                     /\ (ValueOf(o.quality) < MinQuality \/ ValueOf(o.quality) > MaxQuality),
              PushIf(TruthyNumber(o.height)
                       /\ (ValueOf(o.height) < MinDimension \/ ValueOf(o.height) > MaxDimension),
                PushIf(TruthyNumber(o.width)
                         /\ (ValueOf(o.width) < MinDimension \/ ValueOf(o.width) > MaxDimension),
                       <<>>, ErrWidth),
                ErrHeight),
              ErrQuality),
            ErrFormat)
    IN  [isValid |-> Len(errors) = 0, errors |-> errors]

----------------------------------------------------------------------------
(* validateZipOptions (zipExporter.ts) *)

MinCompressionLevel == 0
MaxCompressionLevel == 9

ErrFilename ==
    "Filename can only contain letters, numbers, hyphens, and underscores"
ErrCompressionLevel == "Compression level must be between 0 and 9"

\* [a-zA-Z0-9_-]
IsFilenameChar(c) ==
    c \in LowerCaseLetters \cup UpperCaseLetters \cup Digits \cup {"_", "-"}

\* /^[a-zA-Z0-9_-]+$/.test(s)
MatchesFilenamePattern(s) ==
    Len(s) >= 1 /\ \A i \in 1..Len(s) : IsFilenameChar(s[i])

validateZipOptions(o) ==
    LET errors ==
          PushIf(TruthyNumber(o.compressionLevel)
                   /\ (ValueOf(o.compressionLevel) < MinCompressionLevel
                       \/ ValueOf(o.compressionLevel) > MaxCompressionLevel),
            PushIf(Truthy(o.filename) /\ ~MatchesFilenamePattern(ValueOf(o.filename)),
                   <<>>, ErrFilename),
            ErrCompressionLevel)
    IN  [isValid |-> Len(errors) = 0, errors |-> errors]

NoZipOptions == [filename |-> None, compressionLevel |-> None]

----------------------------------------------------------------------------
(* The inputs of splitTextIntoSlides *)

MaxWords == 3
MaxMinWords == 3

Vocabulary ==
    { <<"a", "a">>, <<"b", ".">>, <<"C", "c">>, <<"d", "d", ".", "E">>,
      <<"f", "f", "f", "f", "f", "f">> }

\* a separator between words, and the padding around the text
Layouts ==
    { [sep |-> <<" ">>, pad |-> <<>>],
      [sep |-> <<"\n", " ">>, pad |-> <<" ">>] }

RECURSIVE JoinWords(_, _)
JoinWords(ws, sep) ==
    IF ws = <<>> THEN <<>>
    ELSE IF Len(ws) = 1 THEN ws[1]
    ELSE ws[1] \o sep \o JoinWords(Tail(ws), sep)

WordLists == UNION {[1..n -> Vocabulary] : n \in 0..MaxWords}

GeneratedTexts ==
    {l.pad \o JoinWords(ws, l.sep) \o l.pad : ws \in WordLists, l \in Layouts}

MaxCharactersValues == {3, 5, 12}

\* the option as the caller writes it: left out, true or false
BoundaryValues == {None, Some(TRUE), Some(FALSE)}

OptionValues ==
    {[maxCharacters |-> Some(m), respectSentenceBoundaries |-> r,
      minWordsPerSlide |-> Some(w)] :
        m \in MaxCharactersValues, r \in BoundaryValues, w \in 1..MaxMinWords}
    \cup {[maxCharacters |-> None, respectSentenceBoundaries |-> r,
           minWordsPerSlide |-> None] : r \in BoundaryValues}

\* The call of the specification's example
ExampleText ==
    <<"S", "h", "o", "r", "t", " ", "o", "n", "e", ".", " ", "T", "h", "i",
      "s", " ", "i", "s", " ", "s", "e", "n", "t", "e", "n", "c", "e", " ",
      "t", "w", "o", ",", " ", "w", "h", "i", "c", "h", " ", "i", "s", " ",
      "a", "l", "s", "o", " ", "f", "a", "i", "r", "l", "y", " ", "s", "h",
      "o", "r", "t", ".", " ", "S", "e", "n", "t", "e", "n", "c", "e", " ",
      "t", "h", "r", "e", "e", " ", "i", "s", " ", "h", "e", "r", "e", " ",
      "t", "o", "o", ".">>
ExampleSlide1 ==
    <<"S", "h", "o", "r", "t", " ", "o", "n", "e", ".">>
ExampleSlide2 ==
    <<"T", "h", "i", "s", " ", "i", "s", " ", "s", "e", "n", "t", "e", "n",
      "c", "e", " ", "t", "w", "o", ",", " ", "w", "h", "i", "c", "h", " ",
      "i", "s", " ", "a", "l", "s", "o", " ", "f", "a", "i", "r", "l", "y",
      " ", "s", "h", "o", "r", "t", ".">>
ExampleSlide3 ==
    <<"S", "e", "n", "t", "e", "n", "c", "e", " ", "t", "h", "r", "e", "e",
      " ", "i", "s", " ", "h", "e", "r", "e", " ", "t", "o", "o", ".">>
ActualSlide1 ==
    <<"S", "h", "o", "r", "t", " ", "o", "n", "e", ".", " ", "T", "h", "i",
      "s", " ", "i", "s", " ", "s", "e", "n", "t", "e", "n", "c", "e", " ",
      "t", "w", "o", ",", " ", "w", "h", "i", "c", "h", ".">>
ActualSlide2 ==
    <<"i", "s", " ", "a", "l", "s", "o", " ", "f", "a", "i", "r", "l", "y",
      " ", "s", "h", "o", "r", "t", ".">>

ExampleOptions ==
    [maxCharacters |-> Some(40), respectSentenceBoundaries |-> None,
     minWordsPerSlide |-> Some(3)]

\* the empty string and texts of whitespace only
BlankTexts ==
    { <<>>, <<" ">>, <<"\n", "\t">>, <<" ", "\r", "\n", " ">> }

\* options a caller may also write: limits of 0 and below
DegenerateOptionValues ==
    {[maxCharacters |-> Some(m), respectSentenceBoundaries |-> None,
      minWordsPerSlide |-> Some(w)] : m \in {-1, 0, 5}, w \in {-1, 0}}

SplitInputs ==
    ((GeneratedTexts \cup BlankTexts)
        \X (OptionValues \cup DegenerateOptionValues))
    \cup {<<ExampleText, ExampleOptions>>}

----------------------------------------------------------------------------
(* The inputs of analyzeContent *)

MaxValueWords == 1
MaxFreeTokens == 3

ValueWords == { <<"H", "i">>, <<"{", "a", "}">> }

\* the values written after a label: none, or up to MaxValueWords words
LabelValues ==
    {JoinWords(ws, <<" ">>) :
        ws \in UNION {[1..n -> ValueWords] : n \in 0..MaxValueWords}}

\* how a part is written: "absent", "plain" (no quotes) or "quoted"
PartModes == {"absent", "plain", "quoted"}

ContentLayouts ==
    { [open |-> "\"", close |-> "\"", joiner |-> <<" ">>],
      [open |-> LeftDoubleQuote, close |-> RightDoubleQuote, joiner |-> <<"\n">>] }

\* one part: the label as written, a space and the value
WrittenPart(label, mode, value, l) ==
    IF mode = "absent" THEN <<>>
    ELSE IF mode = "plain" THEN label \o <<" ">> \o value
    ELSE label \o <<" ", l.open>> \o value \o <<l.close>>

WrittenTitle == <<"T", "i", "t", "l", "e", ":">>
WrittenBody == <<"B", "o", "d", "y", ":">>
WrittenVisual == <<"V", "i", "s", "u", "a", "l", ":">>

PartChoices ==
    {<<"absent", <<>>>>} \cup (({"plain", "quoted"}) \X LabelValues)

\* Title, Body and Visual parts in this order, the absent ones left out
LabeledContents ==
    {JoinWords(
        SelectSeq(<<WrittenPart(WrittenTitle, t[1], t[2], l),
                    WrittenPart(WrittenBody, b[1], b[2], l),
                    WrittenPart(WrittenVisual, v[1], v[2], l)>>,
                  LAMBDA part : part # <<>>),
        l.joiner) :
        t \in PartChoices, b \in PartChoices, v \in PartChoices,
        l \in ContentLayouts}

FreeVocabulary ==
    { <<"T", "i", "p">>, <<"#", "A", "I">>, <<"#", "a", "i">>,
      <<"t", "o", "k", "e", "n">>, <<"A", "p", "i">>, <<" ">>, <<"\n">>, <<":">>,
      <<"{", "b", "}">>, Fence }

FreeContents ==
    {Flatten(ts) : ts \in UNION {[1..n -> FreeVocabulary] : n \in 0..MaxFreeTokens}}

\* "Great tips #AI #ai #productivity"
TagExampleText ==
    <<"G", "r", "e", "a", "t", " ", "t", "i", "p", "s", " ", "#", "A", "I",
      " ", "#", "a", "i", " ", "#", "p", "r", "o", "d", "u", "c", "t", "i",
      "v", "i", "t", "y">>

\* a label without value
LabelOnly == <<"T", "i", "t", "l", "e", ":">>

\* labels without values
LabelsOnly == <<"T", "i", "t", "l", "e", ":", " ", "B", "o", "d", "y", ":", "\n", "V", "i", "s", "u", "a", "l", ":">>

\* a quote that is not closed
UnclosedQuote == <<"T", "i", "t", "l", "e", ":", " ", "\"", "H", "i">>

\* a typographic quote that is not closed
UnclosedSmartQuote == <<"B", "o", "d", "y", ":", " ", LeftDoubleQuote, "H", "i">>

\* a fence that is not closed
UnclosedFence == <<Backtick, Backtick, Backtick, "H", "i">>

\* a brace that is not closed
UnclosedBrace == <<"{", "H", "i">>

\* braces in the wrong order
ReversedBraces == <<"}", "H", "i", "{">>

MalformedContents ==
    {<<>>, LabelOnly, LabelsOnly, UnclosedQuote,
     UnclosedSmartQuote, UnclosedFence, UnclosedBrace, ReversedBraces}

AnalyzerInputs ==
    LabeledContents \cup FreeContents \cup {TagExampleText}
        \cup MalformedContents

----------------------------------------------------------------------------
(* The inputs of the validators *)

\* one word of n characters
LongWord(n) == [i \in 1..n |-> "a"]

\* n one-letter words
ManyWords(n) == [i \in 1..(2 * n - 1) |-> IF i % 2 = 1 THEN "a" ELSE " "]

ValidatedTexts ==
    GeneratedTexts
    \cup {LongWord(LongTextLength), LongWord(LongTextLength + 1),
          ManyWords(LongTextWords), ManyWords(LongTextWords + 1),
          ManyWords(LongTextLength \div 2 + 1)}

DimensionValues ==
    {None, Some(-1), Some(0), Some(MinDimension - 1), Some(MinDimension),
     Some(MaxDimension), Some(MaxDimension + 1)}

QualityValues ==
    {None, Some(-1), Some(0), Some(MinQuality - 1), Some(MinQuality),
     Some(MaxQuality), Some(MaxQuality + 1)}

FormatValues == {None, Some(""), Some("png"), Some("jpg"), Some("gif")}

SlideOptionValues ==
    [width : DimensionValues, height : DimensionValues,
     quality : QualityValues, format : FormatValues]

----------------------------------------------------------------------------
(* The state machines, one for each function under study.  While one     *)
(* function runs, the variables of the others keep their idle values.    *)

opts == MergeOptions(options)

NoFields ==
    [title |-> None, body |-> None, visual |-> None,
     visualSnippet |-> None, tags |-> None]

\* no template: the idle value of the argument
NoTemplate == [id |-> "none"]

NoOptions ==
    [maxCharacters |-> None, respectSentenceBoundaries |-> None,
     minWordsPerSlide |-> None]

NoSlideOptions ==
    [width |-> None, height |-> None, quality |-> None, format |-> None]

----------------------------------------------------------------------------
(* splitTextIntoSlides *)

SplitInit ==
    /\ \E call \in SplitInputs : text = call[1] /\ options = call[2]
    /\ pc = "start"
    /\ sentences = <<>>
    /\ slides = <<>>
    /\ currentSlide = <<>>
    /\ result = <<>>
    /\ content = <<>>
    /\ analysisPc = "idle"
    /\ labeled = NoFields
    /\ analysis = NoFields
    /\ validatedText = <<>>
    /\ validation = None
    /\ slideOptions = NoSlideOptions
    /\ slideValidation = None
    /\ zipOptions = NoZipOptions
    /\ zipValidation = None
    /\ defaultOptions = DEFAULT_OPTIONS
    /\ callLog = <<>>
    /\ readingText = <<>>
    /\ readingTime = None
    /\ textSlides = <<>>
    /\ template = NoTemplate
    /\ generated = None
    /\ exportedSlides = <<>>
    /\ includeMetadata = None
    /\ exportCaller = "none"
    /\ exportPc = "idle"
    /\ exportPromise = "none"
    /\ totalSteps = 0
    /\ currentStep = 0
    /\ slideIndex = 0
    /\ imageCalls = <<>>
    /\ progressEvents = <<>>
    /\ zipEntries = <<>>
    /\ saveAsCalls = 0
    /\ exportProgress = IdleProgress
    /\ inputText = <<>>
    /\ validationErrors = <<>>
    /\ selectedTemplate = DEFAULT_TEMPLATE
    /\ optionsTemplate = DEFAULT_TEMPLATE
    /\ appSlides = <<>>
    /\ isGenerating = FALSE
    /\ aiGeneratedContent = None
    /\ showAIContent = FALSE
    /\ pendingCalls = <<>>
    /\ handled = "none"

\* A faulty variant of ReturnEmpty that returns the text as its only slide;
\* C12_BlankGivesNoSlide tells it from the code.
ReturnText ==
    /\ pc = "start"
    /\ (Trim(text) = <<>> \/ ExtractSentences(text) = <<>>)
    /\ pc' = "done"
    /\ result' = <<text>>
    /\ UNCHANGED <<text, options, sentences, slides, currentSlide>>
    /\ UNCHANGED <<analyzeVars, validateVars, slideOptionVars, zipOptionVars,
                   callVars, readingVars, generateVars, exportVars, appVars>>

\* lines 18-20 and 33-35: nothing to split
ReturnEmpty ==
    /\ pc = "start"
    /\ (Trim(text) = <<>> \/ ExtractSentences(text) = <<>>)
    /\ pc' = "done"
    /\ result' = <<>>
    /\ UNCHANGED <<text, options, sentences, slides, currentSlide>>
    /\ UNCHANGED <<analyzeVars, validateVars, slideOptionVars, zipOptionVars,
                   callVars, readingVars, generateVars, exportVars, appVars>>

\* lines 22-38
Prepare ==
    /\ pc = "start"
    /\ Trim(text) # <<>>
    /\ ExtractSentences(text) # <<>>
    /\ sentences' = ExtractSentences(text)
    /\ slides' = <<>>
    /\ currentSlide' = <<>>
    /\ pc' = "loop"
    /\ UNCHANGED <<text, options, result>>
    /\ UNCHANGED <<analyzeVars, validateVars, slideOptionVars, zipOptionVars,
                   callVars, readingVars, generateVars, exportVars, appVars>>

\* A faulty variant of Accumulate that drops a buffer that is too short
\* to be flushed; C24_WordsInOrder tells it from the code.
AccumulateDropShort(cur, sentence, o) ==
    IF cur # <<>> /\ Len(JoinWithSpace(cur, sentence)) > o.maxCharacters
    THEN IF getWordCount(cur) >= o.minWordsPerSlide
         THEN [flushed |-> <<Trim(cur)>>, cur |-> sentence]
         ELSE [flushed |-> <<>>, cur |-> sentence]
    ELSE [flushed |-> <<>>,
          cur |-> IF cur # <<>> THEN JoinWithSpace(cur, sentence) ELSE sentence]

\* A faulty variant of Accumulate that flushes the buffer whatever its word
\* count; C3_OnlyLastSlideShort tells it from the code.
AccumulateAlwaysFlush(cur, sentence, o) ==
    IF cur # <<>> /\ Len(JoinWithSpace(cur, sentence)) > o.maxCharacters
    THEN [flushed |-> <<Trim(cur)>>, cur |-> sentence]
    ELSE [flushed |-> <<>>,
          cur |-> IF cur # <<>> THEN JoinWithSpace(cur, sentence) ELSE sentence]

\* A faulty variant of Accumulate that flushes a short buffer when
\* respectSentenceBoundaries is false; C14_BoundaryOptionIgnored tells it
\* from the code.
AccumulateByOption(cur, sentence, o) ==
    IF cur # <<>> /\ Len(JoinWithSpace(cur, sentence)) > o.maxCharacters
    THEN IF ~o.respectSentenceBoundaries
            \/ getWordCount(cur) >= o.minWordsPerSlide
         THEN [flushed |-> <<Trim(cur)>>, cur |-> sentence]
         ELSE [flushed |-> <<>>, cur |-> Trim(JoinWithSpace(cur, sentence))]
    ELSE [flushed |-> <<>>,
          cur |-> IF cur # <<>> THEN JoinWithSpace(cur, sentence) ELSE sentence]

\* lines 43-56: the slide flushed, if any, and the buffer after the
\* sentence was added
Accumulate(cur, sentence, o) ==
    IF cur # <<>> /\ Len(JoinWithSpace(cur, sentence)) > o.maxCharacters
    THEN IF getWordCount(cur) >= o.minWordsPerSlide
         THEN [flushed |-> <<Trim(cur)>>, cur |-> sentence]
         ELSE [flushed |-> <<>>, cur |-> Trim(JoinWithSpace(cur, sentence))]
    ELSE [flushed |-> <<>>,
          cur |-> IF cur # <<>> THEN JoinWithSpace(cur, sentence) ELSE sentence]

\* lines 40-64: one iteration of the for loop
ProcessSentence ==
    /\ pc = "loop"
    /\ sentences # <<>>
    /\ LET trimmedSentence == Trim(Head(sentences))
           acc == Accumulate(currentSlide, trimmedSentence, opts)
           splitResult == splitLongSentence(acc.cur, opts.maxCharacters,
                                            opts.minWordsPerSlide)
       IN  IF Len(acc.cur) > opts.maxCharacters
           THEN /\ slides' = slides \o acc.flushed \o splitResult.slides
                /\ currentSlide' = splitResult.remainder
           ELSE /\ slides' = slides \o acc.flushed
                /\ currentSlide' = acc.cur
    /\ sentences' = Tail(sentences)
    /\ UNCHANGED <<text, options, pc, result>>
    /\ UNCHANGED <<analyzeVars, validateVars, slideOptionVars, zipOptionVars,
                   callVars, readingVars, generateVars, exportVars, appVars>>

\* lines 66-72
Finish ==
    /\ pc = "loop"
    /\ sentences = <<>>
    /\ LET final == IF Trim(currentSlide) # <<>>
                    THEN Append(slides, Trim(currentSlide))
                    ELSE slides
       IN  /\ slides' = final
           /\ result' = postProcessSlides(final, opts)
    /\ pc' = "done"
    /\ UNCHANGED <<text, options, sentences, currentSlide>>
    /\ UNCHANGED <<analyzeVars, validateVars, slideOptionVars, zipOptionVars,
                   callVars, readingVars, generateVars, exportVars, appVars>>

\* lines 40-64 as a function: slides and currentSlide after the for loop has
\* visited the sentences ss
RECURSIVE SplitLoop(_, _, _, _)
SplitLoop(ss, done, cur, o) ==
    IF ss = <<>> THEN [slides |-> done, currentSlide |-> cur]
    ELSE LET acc == Accumulate(cur, Trim(Head(ss)), o)
             splitResult == splitLongSentence(acc.cur, o.maxCharacters,
                                              o.minWordsPerSlide)
         IN  IF Len(acc.cur) > o.maxCharacters
             THEN SplitLoop(Tail(ss), done \o acc.flushed \o splitResult.slides,
                            splitResult.remainder, o)
             ELSE SplitLoop(Tail(ss), done \o acc.flushed, acc.cur, o)

\* lines 12-73 as a function of the arguments and of the module-level
\* defaults
SplitWithDefaults(t, callerOptions, defaults) ==
    LET o == Spread(defaults, callerOptions)
        loop == SplitLoop(ExtractSentences(t), <<>>, <<>>, o)
        final == IF Trim(loop.currentSlide) # <<>>
                 THEN Append(loop.slides, Trim(loop.currentSlide))
                 ELSE loop.slides
    IN  IF Trim(t) = <<>> \/ ExtractSentences(t) = <<>> THEN <<>>
        ELSE postProcessSlides(final, o)

splitTextIntoSlides(t, callerOptions) ==
    SplitWithDefaults(t, callerOptions, DEFAULT_OPTIONS)

SplitNext == ReturnEmpty \/ Prepare \/ ProcessSentence \/ Finish

SplitSpec == SplitInit /\ [][SplitNext]_vars

----------------------------------------------------------------------------
(* analyzeContent *)

AnalyzeInit ==
    /\ content \in AnalyzerInputs
    /\ analysisPc = "start"
    /\ labeled = NoFields
    /\ analysis = NoFields
    /\ text = <<>>
    /\ options = NoOptions
    /\ pc = "idle"
    /\ sentences = <<>>
    /\ slides = <<>>
    /\ currentSlide = <<>>
    /\ result = <<>>
    /\ validatedText = <<>>
    /\ validation = None
    /\ slideOptions = NoSlideOptions
    /\ slideValidation = None
    /\ zipOptions = NoZipOptions
    /\ zipValidation = None
    /\ defaultOptions = DEFAULT_OPTIONS
    /\ callLog = <<>>
    /\ readingText = <<>>
    /\ readingTime = None
    /\ textSlides = <<>>
    /\ template = NoTemplate
    /\ generated = None
    /\ exportedSlides = <<>>
    /\ includeMetadata = None
    /\ exportCaller = "none"
    /\ exportPc = "idle"
    /\ exportPromise = "none"
    /\ totalSteps = 0
    /\ currentStep = 0
    /\ slideIndex = 0
    /\ imageCalls = <<>>
    /\ progressEvents = <<>>
    /\ zipEntries = <<>>
    /\ saveAsCalls = 0
    /\ exportProgress = IdleProgress
    /\ inputText = <<>>
    /\ validationErrors = <<>>
    /\ selectedTemplate = DEFAULT_TEMPLATE
    /\ optionsTemplate = DEFAULT_TEMPLATE
    /\ appSlides = <<>>
    /\ isGenerating = FALSE
    /\ aiGeneratedContent = None
    /\ showAIContent = FALSE
    /\ pendingCalls = <<>>
    /\ handled = "none"

\* line 98
ExtractLabeled ==
    /\ analysisPc = "start"
    /\ labeled' = extractLabeled(content)
    /\ analysisPc' = "extracted"
    /\ UNCHANGED <<content, analysis>>
    /\ UNCHANGED <<splitVars, validateVars, slideOptionVars, zipOptionVars,
                   callVars, readingVars, generateVars, exportVars, appVars>>

\* lines 99-100, a labeled field is truthy
ReturnLabeled ==
    /\ analysisPc = "extracted"
    /\ hasAnyLabel(labeled)
    /\ analysis' = labeled
    /\ analysisPc' = "done"
    /\ UNCHANGED <<content, labeled>>
    /\ UNCHANGED <<splitVars, validateVars, slideOptionVars, zipOptionVars,
                   callVars, readingVars, generateVars, exportVars, appVars>>

\* what a call that throws leaves in place of its result
TypeError == [name |-> "TypeError"]

\* A faulty variant of RunHeuristics that reads the group of the fenced match
\* without asking whether there is a match, and throws when there is none;
\* C19_AlwaysStructured tells it from the code.
RunHeuristicsUnguarded ==
    /\ analysisPc = "extracted"
    /\ ~hasAnyLabel(labeled)
    /\ analysis' = IF IsDefined(FencedMatch(normalize(content)))
                   THEN heuristics(content)
                   ELSE TypeError
    /\ analysisPc' = "done"
    /\ UNCHANGED <<content, labeled>>
    /\ UNCHANGED <<splitVars, validateVars, slideOptionVars, zipOptionVars,
                   callVars, readingVars, generateVars, exportVars, appVars>>

\* lines 99-101, no labeled field is truthy
RunHeuristics ==
    /\ analysisPc = "extracted"
    /\ ~hasAnyLabel(labeled)
    /\ analysis' = heuristics(content)
    /\ analysisPc' = "done"
    /\ UNCHANGED <<content, labeled>>
    /\ UNCHANGED <<splitVars, validateVars, slideOptionVars, zipOptionVars,
                   callVars, readingVars, generateVars, exportVars, appVars>>

AnalyzeNext == ExtractLabeled \/ ReturnLabeled \/ RunHeuristics

AnalyzeSpec == AnalyzeInit /\ [][AnalyzeNext]_vars

----------------------------------------------------------------------------
(* validateTextForSlides *)

ValidateInit ==
    /\ validatedText \in ValidatedTexts
    /\ validation = None
    /\ text = <<>>
    /\ options = NoOptions
    /\ pc = "idle"
    /\ sentences = <<>>
    /\ slides = <<>>
    /\ currentSlide = <<>>
    /\ result = <<>>
    /\ content = <<>>
    /\ analysisPc = "idle"
    /\ labeled = NoFields
    /\ analysis = NoFields
    /\ slideOptions = NoSlideOptions
    /\ slideValidation = None
    /\ zipOptions = NoZipOptions
    /\ zipValidation = None
    /\ defaultOptions = DEFAULT_OPTIONS
    /\ callLog = <<>>
    /\ readingText = <<>>
    /\ readingTime = None
    /\ textSlides = <<>>
    /\ template = NoTemplate
    /\ generated = None
    /\ exportedSlides = <<>>
    /\ includeMetadata = None
    /\ exportCaller = "none"
    /\ exportPc = "idle"
    /\ exportPromise = "none"
    /\ totalSteps = 0
    /\ currentStep = 0
    /\ slideIndex = 0
    /\ imageCalls = <<>>
    /\ progressEvents = <<>>
    /\ zipEntries = <<>>
    /\ saveAsCalls = 0
    /\ exportProgress = IdleProgress
    /\ inputText = <<>>
    /\ validationErrors = <<>>
    /\ selectedTemplate = DEFAULT_TEMPLATE
    /\ optionsTemplate = DEFAULT_TEMPLATE
    /\ appSlides = <<>>
    /\ isGenerating = FALSE
    /\ aiGeneratedContent = None
    /\ showAIContent = FALSE
    /\ pendingCalls = <<>>
    /\ handled = "none"

\* lines 146-180
ValidateText ==
    /\ validation = None
    /\ validation' = Some(validateTextForSlides(validatedText))
    /\ UNCHANGED validatedText
    /\ UNCHANGED <<splitVars, analyzeVars, slideOptionVars, zipOptionVars,
                   callVars, readingVars, generateVars, exportVars, appVars>>

ValidateNext == ValidateText

ValidateSpec == ValidateInit /\ [][ValidateNext]_vars

----------------------------------------------------------------------------
(* validateSlideOptions *)

SlideOptionsInit ==
    /\ slideOptions \in SlideOptionValues
    /\ slideValidation = None
    /\ text = <<>>
    /\ options = NoOptions
    /\ pc = "idle"
    /\ sentences = <<>>
    /\ slides = <<>>
    /\ currentSlide = <<>>
    /\ result = <<>>
    /\ content = <<>>
    /\ analysisPc = "idle"
    /\ labeled = NoFields
    /\ analysis = NoFields
    /\ validatedText = <<>>
    /\ validation = None
    /\ zipOptions = NoZipOptions
    /\ zipValidation = None
    /\ defaultOptions = DEFAULT_OPTIONS
    /\ callLog = <<>>
    /\ readingText = <<>>
    /\ readingTime = None
    /\ textSlides = <<>>
    /\ template = NoTemplate
    /\ generated = None
    /\ exportedSlides = <<>>
    /\ includeMetadata = None
    /\ exportCaller = "none"
    /\ exportPc = "idle"
    /\ exportPromise = "none"
    /\ totalSteps = 0
    /\ currentStep = 0
    /\ slideIndex = 0
    /\ imageCalls = <<>>
    /\ progressEvents = <<>>
    /\ zipEntries = <<>>
    /\ saveAsCalls = 0
    /\ exportProgress = IdleProgress
    /\ inputText = <<>>
    /\ validationErrors = <<>>
    /\ selectedTemplate = DEFAULT_TEMPLATE
    /\ optionsTemplate = DEFAULT_TEMPLATE
    /\ appSlides = <<>>
    /\ isGenerating = FALSE
    /\ aiGeneratedContent = None
    /\ showAIContent = FALSE
    /\ pendingCalls = <<>>
    /\ handled = "none"

ValidateSlideOptions ==
    /\ slideValidation = None
    /\ slideValidation' = Some(validateSlideOptions(slideOptions))
    /\ UNCHANGED slideOptions
    /\ UNCHANGED <<splitVars, analyzeVars, validateVars, zipOptionVars,
                   callVars, readingVars, generateVars, exportVars, appVars>>

SlideOptionsNext == ValidateSlideOptions

SlideOptionsSpec == SlideOptionsInit /\ [][SlideOptionsNext]_vars

----------------------------------------------------------------------------
(* validateZipOptions *)

MaxFilenameLength == 3

FilenameCharacters == {"a", "Z", "0", "_", "-", " ", ".", "\n"}

Filenames ==
    UNION {[1..n -> FilenameCharacters] : n \in 0..MaxFilenameLength}

CompressionLevels ==
    {None, Some(-1), Some(MinCompressionLevel), Some(1),
     Some(MaxCompressionLevel), Some(MaxCompressionLevel + 1)}

ZipOptionValues ==
    [filename : {None} \cup {Some(f) : f \in Filenames},
     compressionLevel : CompressionLevels]

ZipOptionsInit ==
    /\ zipOptions \in ZipOptionValues
    /\ zipValidation = None
    /\ text = <<>>
    /\ options = NoOptions
    /\ pc = "idle"
    /\ sentences = <<>>
    /\ slides = <<>>
    /\ currentSlide = <<>>
    /\ result = <<>>
    /\ content = <<>>
    /\ analysisPc = "idle"
    /\ labeled = NoFields
    /\ analysis = NoFields
    /\ validatedText = <<>>
    /\ validation = None
    /\ slideOptions = NoSlideOptions
    /\ slideValidation = None
    /\ defaultOptions = DEFAULT_OPTIONS
    /\ callLog = <<>>
    /\ readingText = <<>>
    /\ readingTime = None
    /\ textSlides = <<>>
    /\ template = NoTemplate
    /\ generated = None
    /\ exportedSlides = <<>>
    /\ includeMetadata = None
    /\ exportCaller = "none"
    /\ exportPc = "idle"
    /\ exportPromise = "none"
    /\ totalSteps = 0
    /\ currentStep = 0
    /\ slideIndex = 0
    /\ imageCalls = <<>>
    /\ progressEvents = <<>>
    /\ zipEntries = <<>>
    /\ saveAsCalls = 0
    /\ exportProgress = IdleProgress
    /\ inputText = <<>>
    /\ validationErrors = <<>>
    /\ selectedTemplate = DEFAULT_TEMPLATE
    /\ optionsTemplate = DEFAULT_TEMPLATE
    /\ appSlides = <<>>
    /\ isGenerating = FALSE
    /\ aiGeneratedContent = None
    /\ showAIContent = FALSE
    /\ pendingCalls = <<>>
    /\ handled = "none"

\* zipExporter.ts lines 188-206
ValidateZipOptions ==
    /\ zipValidation = None
    /\ zipValidation' = Some(validateZipOptions(zipOptions))
    /\ UNCHANGED zipOptions
    /\ UNCHANGED <<splitVars, analyzeVars, validateVars, slideOptionVars,
                   callVars, readingVars, generateVars, exportVars, appVars>>

ZipOptionsNext == ValidateZipOptions

ZipOptionsSpec == ZipOptionsInit /\ [][ZipOptionsNext]_vars

----------------------------------------------------------------------------
(* Successive calls of splitTextIntoSlides.  The function is synchronous   *)
(* and JavaScript runs it to completion, so a call is one step.           *)

MaxCalls == 3

CallTexts ==
    { <<"b", ".", " ", "a", "a", " ", "a", "a">>,
      <<"a", "a", " ", "a", "a", " ", "f", "f", "f", "f", "f", "f">> }

CallOptions ==
    { NoOptions,
      [maxCharacters |-> Some(5), respectSentenceBoundaries |-> None,
       minWordsPerSlide |-> Some(2)],
      [maxCharacters |-> Some(12), respectSentenceBoundaries |-> Some(FALSE),
       minWordsPerSlide |-> None] }

\* A faulty variant of DefaultsAfterCall in which the call merges the
\* caller's options into DEFAULT_OPTIONS itself; C15_CallsAreIndependent tells
\* it from the code.
DefaultsOverwritten(defaults, callerOptions) == Spread(defaults, callerOptions)

\* DEFAULT_OPTIONS after a call: line 16 spreads it into a new object and no
\* line assigns to it or to one of its fields
DefaultsAfterCall(defaults, callerOptions) == defaults

\* the caller's options object after a call: only read, by the spread of
\* line 16
OptionsAfterCall(defaults, callerOptions) == callerOptions

CallsInit ==
    /\ defaultOptions = DEFAULT_OPTIONS
    /\ callLog = <<>>
    /\ text = <<>>
    /\ options = NoOptions
    /\ pc = "idle"
    /\ sentences = <<>>
    /\ slides = <<>>
    /\ currentSlide = <<>>
    /\ result = <<>>
    /\ content = <<>>
    /\ analysisPc = "idle"
    /\ labeled = NoFields
    /\ analysis = NoFields
    /\ validatedText = <<>>
    /\ validation = None
    /\ slideOptions = NoSlideOptions
    /\ slideValidation = None
    /\ zipOptions = NoZipOptions
    /\ zipValidation = None
    /\ readingText = <<>>
    /\ readingTime = None
    /\ textSlides = <<>>
    /\ template = NoTemplate
    /\ generated = None
    /\ exportedSlides = <<>>
    /\ includeMetadata = None
    /\ exportCaller = "none"
    /\ exportPc = "idle"
    /\ exportPromise = "none"
    /\ totalSteps = 0
    /\ currentStep = 0
    /\ slideIndex = 0
    /\ imageCalls = <<>>
    /\ progressEvents = <<>>
    /\ zipEntries = <<>>
    /\ saveAsCalls = 0
    /\ exportProgress = IdleProgress
    /\ inputText = <<>>
    /\ validationErrors = <<>>
    /\ selectedTemplate = DEFAULT_TEMPLATE
    /\ optionsTemplate = DEFAULT_TEMPLATE
    /\ appSlides = <<>>
    /\ isGenerating = FALSE
    /\ aiGeneratedContent = None
    /\ showAIContent = FALSE
    /\ pendingCalls = <<>>
    /\ handled = "none"

\* one call splitTextIntoSlides(t, o)
Call ==
    /\ Len(callLog) < MaxCalls
    /\ \E t \in CallTexts, o \in CallOptions :
          /\ callLog' = Append(callLog,
                 [text |-> t,
                  options |-> o,
                  optionsAfter |-> OptionsAfterCall(defaultOptions, o),
                  result |-> SplitWithDefaults(t, o, defaultOptions)])
          /\ defaultOptions' = DefaultsAfterCall(defaultOptions, o)
    /\ UNCHANGED <<splitVars, analyzeVars, validateVars, slideOptionVars,
                   zipOptionVars, readingVars, generateVars, exportVars,
                   appVars>>

CallsNext == Call

CallsSpec == CallsInit /\ [][CallsNext]_vars

----------------------------------------------------------------------------
(* estimateReadingTime *)

MaxReadingWords == 830

ReadingTexts ==
    GeneratedTexts \cup BlankTexts
        \cup {ManyWords(n) : n \in 1..MaxReadingWords}

ReadingInit ==
    /\ readingText \in ReadingTexts
    /\ readingTime = None
    /\ text = <<>>
    /\ options = NoOptions
    /\ pc = "idle"
    /\ sentences = <<>>
    /\ slides = <<>>
    /\ currentSlide = <<>>
    /\ result = <<>>
    /\ content = <<>>
    /\ analysisPc = "idle"
    /\ labeled = NoFields
    /\ analysis = NoFields
    /\ validatedText = <<>>
    /\ validation = None
    /\ slideOptions = NoSlideOptions
    /\ slideValidation = None
    /\ zipOptions = NoZipOptions
    /\ zipValidation = None
    /\ defaultOptions = DEFAULT_OPTIONS
    /\ callLog = <<>>
    /\ textSlides = <<>>
    /\ template = NoTemplate
    /\ generated = None
    /\ exportedSlides = <<>>
    /\ includeMetadata = None
    /\ exportCaller = "none"
    /\ exportPc = "idle"
    /\ exportPromise = "none"
    /\ totalSteps = 0
    /\ currentStep = 0
    /\ slideIndex = 0
    /\ imageCalls = <<>>
    /\ progressEvents = <<>>
    /\ zipEntries = <<>>
    /\ saveAsCalls = 0
    /\ exportProgress = IdleProgress
    /\ inputText = <<>>
    /\ validationErrors = <<>>
    /\ selectedTemplate = DEFAULT_TEMPLATE
    /\ optionsTemplate = DEFAULT_TEMPLATE
    /\ appSlides = <<>>
    /\ isGenerating = FALSE
    /\ aiGeneratedContent = None
    /\ showAIContent = FALSE
    /\ pendingCalls = <<>>
    /\ handled = "none"

\* textSplitter.ts lines 137-141
EstimateReadingTime ==
    /\ readingTime = None
    /\ readingTime' = Some(estimateReadingTime(readingText))
    /\ UNCHANGED readingText
    /\ UNCHANGED <<splitVars, analyzeVars, validateVars, slideOptionVars,
                   zipOptionVars, callVars, generateVars, exportVars,
                   appVars>>

ReadingNext == EstimateReadingTime

ReadingSpec == ReadingInit /\ [][ReadingNext]_vars

----------------------------------------------------------------------------
(* generateSlides *)

MaxSlides == 10

SlideChunks == { <<"a", "a">>, <<"b", ".">> }

ChunkLists == UNION {[1..n -> SlideChunks] : n \in 0..MaxSlides}

\* a template, by its id
Templates == { [id |-> "minimal"], [id |-> "bold"] }

GenerateInit ==
    /\ textSlides \in ChunkLists
    /\ template \in Templates
    /\ generated = None
    /\ text = <<>>
    /\ options = NoOptions
    /\ pc = "idle"
    /\ sentences = <<>>
    /\ slides = <<>>
    /\ currentSlide = <<>>
    /\ result = <<>>
    /\ content = <<>>
    /\ analysisPc = "idle"
    /\ labeled = NoFields
    /\ analysis = NoFields
    /\ validatedText = <<>>
    /\ validation = None
    /\ slideOptions = NoSlideOptions
    /\ slideValidation = None
    /\ zipOptions = NoZipOptions
    /\ zipValidation = None
    /\ defaultOptions = DEFAULT_OPTIONS
    /\ callLog = <<>>
    /\ readingText = <<>>
    /\ readingTime = None
    /\ exportedSlides = <<>>
    /\ includeMetadata = None
    /\ exportCaller = "none"
    /\ exportPc = "idle"
    /\ exportPromise = "none"
    /\ totalSteps = 0
    /\ currentStep = 0
    /\ slideIndex = 0
    /\ imageCalls = <<>>
    /\ progressEvents = <<>>
    /\ zipEntries = <<>>
    /\ saveAsCalls = 0
    /\ exportProgress = IdleProgress
    /\ inputText = <<>>
    /\ validationErrors = <<>>
    /\ selectedTemplate = DEFAULT_TEMPLATE
    /\ optionsTemplate = DEFAULT_TEMPLATE
    /\ appSlides = <<>>
    /\ isGenerating = FALSE
    /\ aiGeneratedContent = None
    /\ showAIContent = FALSE
    /\ pendingCalls = <<>>
    /\ handled = "none"

\* slideGenerator lines 16-27
GenerateSlides ==
    /\ generated = None
    /\ generated' = Some(generateSlides(textSlides, template))
    /\ UNCHANGED <<textSlides, template>>
    /\ UNCHANGED <<splitVars, analyzeVars, validateVars, slideOptionVars,
                   zipOptionVars, callVars, readingVars, exportVars, appVars>>

GenerateNext == GenerateSlides

GenerateSpec == GenerateInit /\ [][GenerateNext]_vars

----------------------------------------------------------------------------
(* exportSlidesAsZip, and handleExportZip of App.tsx *)

MaxExportSlides == 4

\* The lists of slides handed to exportSlidesAsZip: what generateSlides makes.
ExportSlideLists ==
    {generateSlides([k \in 1..n |-> <<"a", "a">>], [id |-> "minimal"]) :
        n \in 0..MaxExportSlides}

IncludeMetadataValues == {None, Some(TRUE), Some(FALSE)}

ExportInit ==
    /\ text = <<>>
    /\ options = NoOptions
    /\ pc = "idle"
    /\ sentences = <<>>
    /\ slides = <<>>
    /\ currentSlide = <<>>
    /\ result = <<>>
    /\ content = <<>>
    /\ analysisPc = "idle"
    /\ labeled = NoFields
    /\ analysis = NoFields
    /\ validatedText = <<>>
    /\ validation = None
    /\ slideOptions = NoSlideOptions
    /\ slideValidation = None
    /\ zipOptions = NoZipOptions
    /\ zipValidation = None
    /\ defaultOptions = DEFAULT_OPTIONS
    /\ callLog = <<>>
    /\ readingText = <<>>
    /\ readingTime = None
    /\ textSlides = <<>>
    /\ template = NoTemplate
    /\ generated = None
    /\ exportedSlides = <<>>
    /\ includeMetadata = None
    /\ exportCaller = "none"
    /\ exportPc = "idle"
    /\ exportPromise = "none"
    /\ totalSteps = 0
    /\ currentStep = 0
    /\ slideIndex = 0
    /\ imageCalls = <<>>
    /\ progressEvents = <<>>
    /\ zipEntries = <<>>
    /\ saveAsCalls = 0
    /\ exportProgress = IdleProgress
    /\ inputText = <<>>
    /\ validationErrors = <<>>
    /\ selectedTemplate = DEFAULT_TEMPLATE
    /\ optionsTemplate = DEFAULT_TEMPLATE
    /\ appSlides = <<>>
    /\ isGenerating = FALSE
    /\ aiGeneratedContent = None
    /\ showAIContent = FALSE
    /\ pendingCalls = <<>>
    /\ handled = "none"

\* zipExporter.ts lines 21-48: from the call to the first await.  With no
\* slide the loop is skipped and the function runs on to zip.generateAsync.
StartExport(ss, given, caller) ==
    LET tot == TotalStepsOf(ss, given)
        started == <<Progress(0, tot, "generating")>>
        after == AfterLoop(0, <<>>, started, given, tot)
        events == IF Len(ss) > 0
                  THEN Append(started, Progress(0, tot, "generating"))
                  ELSE after.progressEvents
    IN  /\ exportPc = "idle"
        /\ exportedSlides' = ss
        /\ includeMetadata' = given
        /\ exportCaller' = caller
        /\ exportPromise' = "pending"
        /\ totalSteps' = tot
        /\ slideIndex' = 0
        /\ imageCalls' = <<>>
        /\ progressEvents' = events
        /\ exportProgress' = IF caller = "App"
                             THEN LastProgress(events, exportProgress)
                             ELSE exportProgress
        /\ saveAsCalls' = 0
        /\ IF Len(ss) > 0
           THEN /\ exportPc' = "generateSlideImage"
                /\ currentStep' = 0
                /\ zipEntries' = <<>>
           ELSE /\ exportPc' = "generateAsync"
                /\ currentStep' = after.currentStep
                /\ zipEntries' = after.zipEntries

\* App.tsx lines 142-162: nothing happens without slides; otherwise the
\* slides of the state are exported with includeMetadata: true.
HandleExportZip ==
    /\ \E ss \in ExportSlideLists :
          /\ Len(ss) # 0
          /\ StartExport(ss, Some(TRUE), "App")
    /\ UNCHANGED <<splitVars, analyzeVars, validateVars, slideOptionVars,
                   zipOptionVars, callVars, readingVars, generateVars,
                   appVars>>

\* A call of exportSlidesAsZip by any other caller.
CallExportSlidesAsZip ==
    /\ \E ss \in ExportSlideLists, given \in IncludeMetadataValues :
          StartExport(ss, given, "direct")
    /\ UNCHANGED <<splitVars, analyzeVars, validateVars, slideOptionVars,
                   zipOptionVars, callVars, readingVars, generateVars,
                   appVars>>

\* zipExporter.ts lines 48-53, then 43-48 or 61-72: generateSlideImage has
\* resolved; the image is filed and the loop goes on to the next await.
SlideImageGenerated ==
    LET slide == exportedSlides[slideIndex + 1]
        step == currentStep + 1
        files == Append(zipEntries, SlideEntry(slide))
        events == Append(progressEvents,
                         Progress(step, totalSteps, "generating"))
        after == AfterLoop(step, files, events, includeMetadata, totalSteps)
        more == slideIndex + 1 < Len(exportedSlides)
        emitted == IF more
                   THEN Append(events,
                               Progress(step, totalSteps, "generating"))
                   ELSE after.progressEvents
    IN  /\ exportPc = "generateSlideImage"
        /\ imageCalls' = Append(imageCalls,
                                [slide |-> slideIndex + 1, ok |-> TRUE])
        /\ slideIndex' = slideIndex + 1
        /\ progressEvents' = emitted
        /\ exportProgress' = IF exportCaller = "App"
                             THEN LastProgress(emitted, exportProgress)
                             ELSE exportProgress
        /\ IF more
           THEN /\ exportPc' = "generateSlideImage"
                /\ currentStep' = step
                /\ zipEntries' = files
           ELSE /\ exportPc' = "generateAsync"
                /\ currentStep' = after.currentStep
                /\ zipEntries' = after.zipEntries
        /\ UNCHANGED <<exportedSlides, includeMetadata, exportCaller,
                       exportPromise, totalSteps, saveAsCalls>>
        /\ UNCHANGED <<splitVars, analyzeVars, validateVars, slideOptionVars,
                       zipOptionVars, callVars, readingVars, generateVars,
                       appVars>>

\* An export that is not fail-fast: the failure of a slide is reported and
\* the export runs on to zip.generateAsync.
SlideImageIgnored ==
    /\ exportPc = "generateSlideImage"
    /\ imageCalls' = Append(imageCalls,
                            [slide |-> slideIndex + 1, ok |-> FALSE])
    /\ progressEvents' = Append(progressEvents,
                                Progress(currentStep, totalSteps, "error"))
    /\ exportPc' = "generateAsync"
    /\ UNCHANGED <<exportedSlides, includeMetadata, exportCaller,
                   exportPromise, totalSteps, currentStep, slideIndex,
                   zipEntries, saveAsCalls, exportProgress>>
    /\ UNCHANGED <<splitVars, analyzeVars, validateVars, slideOptionVars,
                   zipOptionVars, callVars, readingVars, generateVars,
                   appVars>>

\* zipExporter.ts lines 54-58 and 88-91: generateSlideImage has rejected; the
\* inner and the outer catch each report the error and the error is rethrown.
SlideImageFailed ==
    LET failed == Progress(currentStep, totalSteps, "error")
        emitted == progressEvents \o <<failed, failed>>
    IN  /\ exportPc = "generateSlideImage"
        /\ imageCalls' = Append(imageCalls,
                                [slide |-> slideIndex + 1, ok |-> FALSE])
        /\ progressEvents' = emitted
        /\ exportProgress' = IF exportCaller = "App"
                             THEN LastProgress(emitted, exportProgress)
                             ELSE exportProgress
        /\ exportPc' = "done"
        /\ exportPromise' = "rejected"
        /\ UNCHANGED <<exportedSlides, includeMetadata, exportCaller,
                       totalSteps, currentStep, slideIndex, zipEntries,
                       saveAsCalls>>
        /\ UNCHANGED <<splitVars, analyzeVars, validateVars, slideOptionVars,
                       zipOptionVars, callVars, readingVars, generateVars,
                       appVars>>

\* zipExporter.ts lines 72-87: zip.generateAsync has resolved; the file is
\* saved and the export is complete.
ZipGenerated ==
    LET emitted == progressEvents
                     \o <<Progress(currentStep, totalSteps, "exporting"),
                          Progress(currentStep, totalSteps, "complete")>>
    IN  /\ exportPc = "generateAsync"
        /\ saveAsCalls' = saveAsCalls + 1
        /\ progressEvents' = emitted
        /\ exportProgress' = IF exportCaller = "App"
                             THEN LastProgress(emitted, exportProgress)
                             ELSE exportProgress
        /\ exportPc' = "done"
        /\ exportPromise' = "fulfilled"
        /\ UNCHANGED <<exportedSlides, includeMetadata, exportCaller,
                       totalSteps, currentStep, slideIndex, imageCalls,
                       zipEntries>>
        /\ UNCHANGED <<splitVars, analyzeVars, validateVars, slideOptionVars,
                       zipOptionVars, callVars, readingVars, generateVars,
                       appVars>>

\* zipExporter.ts lines 72-78 and 88-91: zip.generateAsync has rejected.
ZipFailed ==
    LET emitted == Append(progressEvents,
                          Progress(currentStep, totalSteps, "error"))
    IN  /\ exportPc = "generateAsync"
        /\ progressEvents' = emitted
        /\ exportProgress' = IF exportCaller = "App"
                             THEN LastProgress(emitted, exportProgress)
                             ELSE exportProgress
        /\ exportPc' = "done"
        /\ exportPromise' = "rejected"
        /\ UNCHANGED <<exportedSlides, includeMetadata, exportCaller,
                       totalSteps, currentStep, slideIndex, imageCalls,
                       zipEntries, saveAsCalls>>
        /\ UNCHANGED <<splitVars, analyzeVars, validateVars, slideOptionVars,
                       zipOptionVars, callVars, readingVars, generateVars,
                       appVars>>

\* App.tsx lines 163-174: the catch of handleExportZip
HandleExportZipCatch ==
    /\ exportPc = "done"
    /\ exportPromise = "rejected"
    /\ exportCaller = "App"
    /\ exportPc' = "caught"
    /\ exportProgress' = FailedProgress
    /\ UNCHANGED <<exportedSlides, includeMetadata, exportCaller,
                   exportPromise, totalSteps, currentStep, slideIndex,
                   imageCalls, progressEvents, zipEntries, saveAsCalls>>
    /\ UNCHANGED <<splitVars, analyzeVars, validateVars, slideOptionVars,
                   zipOptionVars, callVars, readingVars, generateVars,
                   appVars>>

ExportNext ==
    \/ HandleExportZip
    \/ CallExportSlidesAsZip
    \/ SlideImageGenerated
    \/ SlideImageFailed
    \/ ZipGenerated
    \/ ZipFailed
    \/ HandleExportZipCatch

ExportSpec == ExportInit /\ [][ExportNext]_vars

----------------------------------------------------------------------------
(* The component App: text edits, template selections, Generate *)

MaxAISlides == 2

\* Texts typed into the text area: empty, blank, too short, too few words,
\* long enough only with its trailing blanks, and two longer texts.
EmptyInput == <<>>
BlankInput == <<" ", " ", " ">>
ShortInput == <<"a", " ", "b", " ", "c">>
TwoWordInput == <<"a", "b", "c", "d", "e", "f", "g", "h", "i", "j", " ", "k">>
PaddedInput == <<"a", " ", "b", " ", "c", " ", " ", " ", " ", " ">>
GoodInput == <<"a", "a", " ", "b", "b", " ", "c", "c", " ", "d", "d">>
OtherGoodInput == <<"S", "l", "i", "d", "e", "s", " ", "a", "r", "e", " ", "f", "u", "n", ".">>
AppTexts ==
    {EmptyInput, BlankInput, ShortInput, TwoWordInput, PaddedInput, GoodInput,
     OtherGoodInput}

\* The slides the AI service parses from a response
AISlideContents ==
    {[title |-> <<"T">>, body |-> <<"b">>], [title |-> <<"U">>, body |-> <<>>]}

\* What aiService.generateSlideContent resolves with: at least one slide,
\* and totalSlides: slides.length.  The slides of one response are taken to
\* be alike.
AIResults ==
    {[slides |-> [k \in 1..n |-> c], totalSlides |-> n] :
        n \in 1..MaxAISlides, c \in AISlideContents}

\* The list xs without its k-th element
Without(xs, k) == SubSeq(xs, 1, k - 1) \o SubSeq(xs, k + 1, Len(xs))

AppInit ==
    /\ text = <<>>
    /\ options = NoOptions
    /\ pc = "idle"
    /\ sentences = <<>>
    /\ slides = <<>>
    /\ currentSlide = <<>>
    /\ result = <<>>
    /\ content = <<>>
    /\ analysisPc = "idle"
    /\ labeled = NoFields
    /\ analysis = NoFields
    /\ validatedText = <<>>
    /\ validation = None
    /\ slideOptions = NoSlideOptions
    /\ slideValidation = None
    /\ zipOptions = NoZipOptions
    /\ zipValidation = None
    /\ defaultOptions = DEFAULT_OPTIONS
    /\ callLog = <<>>
    /\ readingText = <<>>
    /\ readingTime = None
    /\ textSlides = <<>>
    /\ template = NoTemplate
    /\ generated = None
    /\ exportedSlides = <<>>
    /\ includeMetadata = None
    /\ exportCaller = "none"
    /\ exportPc = "idle"
    /\ exportPromise = "none"
    /\ totalSteps = 0
    /\ currentStep = 0
    /\ slideIndex = 0
    /\ imageCalls = <<>>
    /\ progressEvents = <<>>
    /\ zipEntries = <<>>
    /\ saveAsCalls = 0
    /\ exportProgress = IdleProgress
    /\ inputText = <<>>
    /\ validationErrors = <<>>
    /\ selectedTemplate = DEFAULT_TEMPLATE
    /\ optionsTemplate = DEFAULT_TEMPLATE
    /\ appSlides = <<>>
    /\ isGenerating = FALSE
    /\ aiGeneratedContent = None
    /\ showAIContent = FALSE
    /\ pendingCalls = <<>>
    /\ handled = "none"

\* A text change that stores the text and leaves the validation as it was.
HandleTextChangeUnvalidated ==
    /\ \E t \in AppTexts : inputText' = t
    /\ handled' = "handleTextChange"
    /\ UNCHANGED <<validationErrors, selectedTemplate, optionsTemplate,
                   appSlides, isGenerating, aiGeneratedContent,
                   showAIContent, pendingCalls>>
    /\ UNCHANGED <<splitVars, analyzeVars, validateVars, slideOptionVars,
                   zipOptionVars, callVars, readingVars, generateVars,
                   exportVars>>

\* App.tsx lines 69-76
HandleTextChange ==
    /\ \E t \in AppTexts :
          /\ inputText' = t
          /\ validationErrors' = validateTextForSlides(t).errors
    /\ handled' = "handleTextChange"
    /\ UNCHANGED <<selectedTemplate, optionsTemplate, appSlides, isGenerating,
                   aiGeneratedContent, showAIContent, pendingCalls>>
    /\ UNCHANGED <<splitVars, analyzeVars, validateVars, slideOptionVars,
                   zipOptionVars, callVars, readingVars, generateVars,
                   exportVars>>

\* App.tsx lines 79-88
HandleTemplateSelect ==
    /\ \E t \in TEMPLATES :
          /\ selectedTemplate' = t
          /\ optionsTemplate' = t
    /\ handled' = "handleTemplateSelect"
    /\ UNCHANGED <<inputText, validationErrors, appSlides, isGenerating,
                   aiGeneratedContent, showAIContent, pendingCalls>>
    /\ UNCHANGED <<splitVars, analyzeVars, validateVars, slideOptionVars,
                   zipOptionVars, callVars, readingVars, generateVars,
                   exportVars>>

\* App.tsx lines 91-103: handleGenerateSlides up to its await.  The call
\* keeps the appState of the render in which the handler was created.
HandleGenerateSlides ==
    IF ReturnsEarly(inputText, validationErrors)
    THEN /\ handled' = "handleGenerateSlides: returned"
         /\ UNCHANGED <<isGenerating, pendingCalls>>
    ELSE /\ isGenerating' = TRUE
         /\ pendingCalls' =
                Append(pendingCalls,
                       [inputText |-> inputText,
                        selectedTemplate |-> selectedTemplate])
         /\ handled' = "handleGenerateSlides: awaiting"

\* A click on the Generate button (lines 434-437): a disabled button does
\* not call its onClick.
ClickGenerate ==
    /\ IF ButtonDisabled(inputText, validationErrors, isGenerating)
       THEN /\ handled' = "click: disabled"
            /\ UNCHANGED <<isGenerating, pendingCalls>>
       ELSE HandleGenerateSlides
    /\ UNCHANGED <<inputText, validationErrors, selectedTemplate,
                   optionsTemplate, appSlides, aiGeneratedContent,
                   showAIContent>>
    /\ UNCHANGED <<splitVars, analyzeVars, validateVars, slideOptionVars,
                   zipOptionVars, callVars, readingVars, generateVars,
                   exportVars>>

\* A continuation that gives the slides the template selected as the call
\* resolves.
AIResolvedCurrentTemplate ==
    /\ \E k \in 1..Len(pendingCalls), aiResult \in AIResults :
          /\ appSlides' = SlidesOfResult(aiResult, selectedTemplate)
          /\ aiGeneratedContent' = Some(aiResult.slides)
          /\ pendingCalls' = Without(pendingCalls, k)
    /\ isGenerating' = FALSE
    /\ showAIContent' = TRUE
    /\ handled' = "resolved"
    /\ UNCHANGED <<inputText, validationErrors, selectedTemplate,
                   optionsTemplate>>
    /\ UNCHANGED <<splitVars, analyzeVars, validateVars, slideOptionVars,
                   zipOptionVars, callVars, readingVars, generateVars,
                   exportVars>>

\* App.tsx lines 105-120: the call has resolved
AIResolved ==
    /\ \E k \in 1..Len(pendingCalls), aiResult \in AIResults :
          /\ appSlides' =
                SlidesOfResult(aiResult, pendingCalls[k].selectedTemplate)
          /\ aiGeneratedContent' = Some(aiResult.slides)
          /\ pendingCalls' = Without(pendingCalls, k)
    /\ isGenerating' = FALSE
    /\ showAIContent' = TRUE
    /\ handled' = "resolved"
    /\ UNCHANGED <<inputText, validationErrors, selectedTemplate,
                   optionsTemplate>>
    /\ UNCHANGED <<splitVars, analyzeVars, validateVars, slideOptionVars,
                   zipOptionVars, callVars, readingVars, generateVars,
                   exportVars>>

\* A rejection that is logged and leaves isGenerating set.
AIRejectedStillGenerating ==
    /\ \E k \in 1..Len(pendingCalls) :
          pendingCalls' = Without(pendingCalls, k)
    /\ handled' = "rejected"
    /\ UNCHANGED <<inputText, validationErrors, selectedTemplate,
                   optionsTemplate, appSlides, isGenerating,
                   aiGeneratedContent, showAIContent>>
    /\ UNCHANGED <<splitVars, analyzeVars, validateVars, slideOptionVars,
                   zipOptionVars, callVars, readingVars, generateVars,
                   exportVars>>

\* App.tsx lines 121-124: the call has rejected
AIRejected ==
    /\ \E k \in 1..Len(pendingCalls) :
          pendingCalls' = Without(pendingCalls, k)
    /\ isGenerating' = FALSE
    /\ handled' = "rejected"
    /\ UNCHANGED <<inputText, validationErrors, selectedTemplate,
                   optionsTemplate, appSlides, aiGeneratedContent,
                   showAIContent>>
    /\ UNCHANGED <<splitVars, analyzeVars, validateVars, slideOptionVars,
                   zipOptionVars, callVars, readingVars, generateVars,
                   exportVars>>

\* App.tsx lines 453-460: the header of the AI content, shown once there is
\* AI content, folds and unfolds it
ToggleAIContent ==
    /\ IsDefined(aiGeneratedContent)
    /\ showAIContent' = ~showAIContent
    /\ handled' = "toggle"
    /\ UNCHANGED <<inputText, validationErrors, selectedTemplate,
                   optionsTemplate, appSlides, isGenerating,
                   aiGeneratedContent, pendingCalls>>
    /\ UNCHANGED <<splitVars, analyzeVars, validateVars, slideOptionVars,
                   zipOptionVars, callVars, readingVars, generateVars,
                   exportVars>>

AppNext ==
    \/ HandleTextChange
    \/ HandleTemplateSelect
    \/ ClickGenerate
    \/ AIResolved
    \/ AIRejected
    \/ ToggleAIContent

AppSpec == AppInit /\ [][AppNext]_vars

\* A pending call settles: the request of the AI service ends with a
\* response or with an error, and both continuations are run.
AISettled == AIResolved \/ AIRejected

AppLiveSpec == AppSpec /\ WF_vars(AISettled)

----------------------------------------------------------------------------
(* Vocabulary of the properties of splitTextIntoSlides *)

\* the whitespace-delimited words of a string, in order
WordsOf(s) ==
    SelectSeq(SplitOnSpace(CollapseWhitespace(Trim(s))),
              LAMBDA w : w # <<>>)

Count(w, ws) == Cardinality({i \in 1..Len(ws) : ws[i] = w})

Range(f) == {f[i] : i \in DOMAIN f}

\* the i-th returned slide without the period post-processing appended to it
Unpunctuated(i) ==
    IF i <= Len(slides) /\ result[i] = Trim(slides[i]) \o <<".">>
    THEN Trim(slides[i])
    ELSE result[i]

PeriodAppended(i) == Unpunctuated(i) # result[i]

InputWords == WordsOf(text)

OutputWords == Flatten([i \in 1..Len(result) |-> WordsOf(Unpunctuated(i))])

\* the first k words of a slide, as the buffer held them
WordPrefix(s, k) == JoinWords(SubSeq(WordsOf(s), 1, k), <<" ">>)

\* The slide went over the limit by a force-merge: its buffer held k words,
\* fewer than minWordsPerSlide, when the next word took it past maxCharacters.
ForceMerged(s, o) ==
    \E k \in 1..(o.minWordsPerSlide - 1) :
        /\ k < Len(WordsOf(s))
        /\ Len(WordPrefix(s, k + 1)) > o.maxCharacters

Done == pc = "done"

PositiveOptions == opts.maxCharacters >= 1 /\ opts.minWordsPerSlide >= 1

\* sentences a..b of the input, joined by single spaces
SentenceRun(a, b) == JoinWords(SubSeq(ExtractSentences(text), a, b), <<" ">>)

SentenceRuns ==
    {SentenceRun(a, b) : a \in 1..Len(ExtractSentences(text)),
                         b \in 1..Len(ExtractSentences(text))}

----------------------------------------------------------------------------
(* C1 .. C6: splitTextIntoSlides *)

\* C1: with maxCharacters >= 1 and minWordsPerSlide >= 1, every returned
\* slide is at most maxCharacters long, unless it is a single word or was
\* force-merged onto a buffer that held fewer than minWordsPerSlide words.
C1_CharacterBudget ==
    (Done /\ PositiveOptions) =>
        \A i \in 1..Len(result) :
            \/ Len(result[i]) <= opts.maxCharacters
            \/ getWordCount(result[i]) = 1
            \/ ForceMerged(Unpunctuated(i), opts)

\* C2: every word of the trimmed, whitespace-collapsed input occurs among the
\* words of the returned slides (appended periods removed) at least as often
\* as in the input.
C2_NoWordLost ==
    Done => \A w \in Range(InputWords) :
                Count(w, OutputWords) >= Count(w, InputWords)

\* C3 as stated: no returned slide has fewer than minWordsPerSlide words.
C3_NoShortSlide ==
    (Done /\ PositiveOptions) =>
        \A i \in 1..Len(result) :
            getWordCount(result[i]) >= opts.minWordsPerSlide

\* C3, amended: every returned slide except the last one has at least
\* minWordsPerSlide words; a short buffer is merged with what follows even
\* past maxCharacters, and only the final remainder is emitted short.
C3_OnlyLastSlideShort ==
    (Done /\ PositiveOptions) =>
        \A i \in 1..(Len(result) - 1) :
            getWordCount(result[i]) >= opts.minWordsPerSlide

\* a short buffer was merged past the limit, and the last slide is short
C3_Witness ==
    /\ Done /\ PositiveOptions
    /\ Len(result) >= 2
    /\ \E i \in 1..(Len(result) - 1) :
           /\ Len(Unpunctuated(i)) > opts.maxCharacters
           /\ ForceMerged(Unpunctuated(i), opts)
    /\ getWordCount(result[Len(result)]) < opts.minWordsPerSlide

IsExampleCall == text = ExampleText /\ options = ExampleOptions

C5_SentenceBoundaries ==
    (/\ Done
     /\ \A k \in 1..Len(ExtractSentences(text)) :
            Len(ExtractSentences(text)[k]) <= opts.maxCharacters) =>
        \A i \in 1..Len(result) : Unpunctuated(i) \in SentenceRuns

\* C6: a word of the whitespace-normalized input that is longer than
\* maxCharacters stays one word of the returned slides, and each slide
\* holding it is longer than maxCharacters.
C6_LongWordIntact ==
    Done => \A w \in Range(InputWords) :
                Len(w) > opts.maxCharacters =>
                    /\ Count(w, OutputWords) = Count(w, InputWords)
                    /\ \A i \in 1..Len(result) :
                           w \in Range(WordsOf(Unpunctuated(i))) =>
                               Len(result[i]) > opts.maxCharacters

----------------------------------------------------------------------------
(* C7, C8: analyzeContent and extractLabeled *)

Analyzed == analysisPc = "done"

\* a label (given in lower case) occurs in a string, whatever its case
MentionsLabel(t, label) == Occurrences(t, label) # {}

\* Each label occurs at most once, and Title: before Body: before Visual:.
LabelsInOrder(t) ==
    /\ \A label \in {TitleLabel, BodyLabel, VisualLabel} :
           Cardinality(Occurrences(t, label)) <= 1
    /\ \A i \in Occurrences(t, TitleLabel) :
           \A j \in Occurrences(t, BodyLabel) \cup Occurrences(t, VisualLabel) :
               i < j
    /\ \A j \in Occurrences(t, BodyLabel) :
           \A k \in Occurrences(t, VisualLabel) : j < k

\* C7: when the labeled extraction has a non-empty title, body or visual,
\* analyzeContent returns exactly that extraction: no tags, and a field whose
\* label does not occur in the text stays undefined. Otherwise, and only
\* then, it returns what the heuristics compute.
C7_LabeledWins ==
    Analyzed =>
        LET extraction == extractLabeled(content)
        IN  IF \/ Truthy(extraction.title)
               \/ Truthy(extraction.body)
               \/ Truthy(extraction.visual)
            THEN /\ analysis = extraction
                 /\ analysis.tags = None
                 /\ ~MentionsLabel(content, TitleLabel) => analysis.title = None
                 /\ ~MentionsLabel(content, BodyLabel) => analysis.body = None
                 /\ ~MentionsLabel(content, VisualLabel) =>
                        analysis.visual = None /\ analysis.visualSnippet = None
            ELSE analysis = heuristics(content)

\* the labeled title was returned where the heuristics infer another title,
\* a body and tags
C7_Witness ==
    /\ Analyzed
    /\ Truthy(analysis.title)
    /\ Truthy(heuristics(content).title)
    /\ heuristics(content).title # analysis.title
    /\ analysis.body = None
    /\ IsDefined(heuristics(content).body)
    /\ analysis.tags = None
    /\ IsDefined(heuristics(content).tags)

\* C8: for a text with the labels in the order Title, Body, Visual, the
\* extracted title holds neither the Body: nor the Visual: label, and the
\* extracted body does not hold the Visual: label.
C8_ValuesStopAtNextLabel ==
    (Analyzed /\ LabelsInOrder(content)) =>
        /\ IsDefined(labeled.title) =>
               /\ ~MentionsLabel(ValueOf(labeled.title), BodyLabel)
               /\ ~MentionsLabel(ValueOf(labeled.title), VisualLabel)
        /\ IsDefined(labeled.body) =>
               ~MentionsLabel(ValueOf(labeled.body), VisualLabel)

----------------------------------------------------------------------------
(* C9, C10: the validators *)

\* C9: validateTextForSlides returns a report for every text. It holds an
\* error exactly when the text is empty or whitespace-only, shorter than 10
\* characters or has fewer than 3 words, each with its own message; it
\* holds a warning exactly when the text is longer than 10,000 characters or
\* has more than 2,000 words; isValid is true exactly when there is no
\* error, whatever the warnings.
C9_ValidationReport ==
    IsDefined(validation) =>
        LET report == ValueOf(validation)
            blank == \A i \in 1..Len(validatedText) : IsWhitespace(validatedText[i])
            short == Len(validatedText) < MinTextLength
            fewWords == Len(WordsOf(validatedText)) < MinTextWords
            long == Len(validatedText) > LongTextLength
            manyWords == Len(WordsOf(validatedText)) > LongTextWords
        IN  /\ report.errors # <<>> <=> (blank \/ short \/ fewWords)
            /\ ErrEmpty \in Range(report.errors) <=> blank
            /\ ErrTooShort \in Range(report.errors) <=> short
            /\ ErrTooFewWords \in Range(report.errors) <=> fewWords
            /\ report.warnings # <<>> <=> (long \/ manyWords)
            /\ WarnVeryLong \in Range(report.warnings) <=> long
            /\ WarnManyWords \in Range(report.warnings) <=> manyWords
            /\ report.isValid <=> report.errors = <<>>

\* a text with a warning was reported valid
C9_Witness ==
    /\ IsDefined(validation)
    /\ ValueOf(validation).isValid
    /\ ValueOf(validation).warnings # <<>>

OutOfRange(o, low, high) ==
    IsDefined(o) /\ (ValueOf(o) < low \/ ValueOf(o) > high)

\* C10: validateSlideOptions reports every provided width or height outside
\* [100, 4000] (0 and negatives included), every provided quality outside
\* [0.1, 1] and every provided format other than png and jpg, each with its
\* message and isValid false; it returns isValid true when every provided
\* field is in range.
C10_RejectsOutOfRange ==
    IsDefined(slideValidation) =>
        LET report == ValueOf(slideValidation)
            badWidth == OutOfRange(slideOptions.width, MinDimension, MaxDimension)
            badHeight == OutOfRange(slideOptions.height, MinDimension, MaxDimension)
            badQuality == OutOfRange(slideOptions.quality, MinQuality, MaxQuality)
            badFormat == /\ IsDefined(slideOptions.format)
                         /\ ValueOf(slideOptions.format) \notin {"png", "jpg"}
        IN  /\ badWidth => (~report.isValid /\ ErrWidth \in Range(report.errors))
            /\ badHeight => (~report.isValid /\ ErrHeight \in Range(report.errors))
            /\ badQuality => (~report.isValid /\ ErrQuality \in Range(report.errors))
            /\ badFormat => (~report.isValid /\ ErrFormat \in Range(report.errors))
            /\ ~(badWidth \/ badHeight \/ badQuality \/ badFormat) => report.isValid

----------------------------------------------------------------------------
(* C11: validateZipOptions *)

\* C11: validateZipOptions reports every provided filename that is not one or
\* more characters of [a-zA-Z0-9_-] (the empty string included) and every
\* provided compressionLevel outside [0, 9], each with its message and
\* isValid false; it returns isValid true for a filename of the pattern with
\* a compressionLevel in 0..9.
C11_RejectsBadZipOptions ==
    IsDefined(zipValidation) =>
        LET report == ValueOf(zipValidation)
            name == zipOptions.filename
            level == zipOptions.compressionLevel
            badName == /\ IsDefined(name)
                       /\ \/ ValueOf(name) = <<>>
                          \/ \E i \in 1..Len(ValueOf(name)) :
                                 ~IsFilenameChar(ValueOf(name)[i])
            badLevel == OutOfRange(level, MinCompressionLevel, MaxCompressionLevel)
        IN  /\ badName => (~report.isValid /\ ErrFilename \in Range(report.errors))
            /\ badLevel =>
                   (~report.isValid /\ ErrCompressionLevel \in Range(report.errors))
            /\ (IsDefined(name) /\ ~badName /\ IsDefined(level) /\ ~badLevel) =>
                   report.isValid

----------------------------------------------------------------------------
(* C12 .. C15: splitTextIntoSlides, continued *)

\* the empty string, or whitespace only
IsBlank(s) == \A i \in 1..Len(s) : IsWhitespace(s[i])

\* C12: for the empty string and for every text of whitespace only, whatever
\* the options, splitTextIntoSlides returns the empty list; the call never
\* stops before it returns.
C12_BlankGivesNoSlide ==
    IsBlank(text) =>
        /\ Done => result = <<>>
        /\ pc \in {"start", "loop"} => ENABLED SplitNext

\* a text of whitespace only was split under options given in full
C12_Witness ==
    /\ Done
    /\ IsBlank(text) /\ text # <<>>
    /\ IsDefined(options.maxCharacters)
    /\ result = <<>>

\* C13: with minWordsPerSlide >= 1, every returned slide is non-empty, has no
\* whitespace at either end and holds at least one word.
C13_SlidesAreTrimmedWords ==
    (Done /\ opts.minWordsPerSlide >= 1) =>
        \A i \in 1..Len(result) :
            /\ result[i] # <<>>
            /\ ~IsWhitespace(result[i][1])
            /\ ~IsWhitespace(result[i][Len(result[i])])
            /\ \E k \in 1..Len(result[i]) : ~IsWhitespace(result[i][k])

\* a text with whitespace around it and line breaks inside was split into
\* several slides
C13_Witness ==
    /\ Done
    /\ opts.minWordsPerSlide >= 1
    /\ text # <<>>
    /\ IsWhitespace(text[1]) /\ IsWhitespace(text[Len(text)])
    /\ \E k \in 1..Len(text) : text[k] = "\n"
    /\ Len(result) >= 2

\* the caller's options with respectSentenceBoundaries written as r
WithBoundaryOption(o, r) == [o EXCEPT !.respectSentenceBoundaries = Some(r)]

\* C14: the call returns the list that the same text, maxCharacters and
\* minWordsPerSlide give with respectSentenceBoundaries = true, and the list
\* they give with respectSentenceBoundaries = false.
C14_BoundaryOptionIgnored ==
    Done =>
        \A r \in BOOLEAN :
            result = splitTextIntoSlides(text, WithBoundaryOption(options, r))

\* a call with respectSentenceBoundaries = false merged a short sentence with
\* the next one and returned several slides
C14_Witness ==
    /\ Done
    /\ options.respectSentenceBoundaries = Some(FALSE)
    /\ Len(ExtractSentences(text)) >= 2
    /\ getWordCount(ExtractSentences(text)[1]) < opts.minWordsPerSlide
    /\ Len(result) >= 2

----------------------------------------------------------------------------
(* C16 .. C19: analyzeContent, continued *)

\* analyzeContent took the heuristic path: no labeled field is non-empty
HeuristicPath ==
    ~(Truthy(labeled.title) \/ Truthy(labeled.body) \/ Truthy(labeled.visual))

\* an opening ``` with a closing ``` after it
HasFencedBlock(t) ==
    \E i, j \in 1..Len(t) :
        j >= i + 3 /\ OccursAt(t, i, Fence) /\ OccursAt(t, j, Fence)

\* a { with a } after it
HasBracedBlock(t) ==
    \E i, j \in 1..Len(t) : i < j /\ t[i] = "{" /\ t[j] = "}"

\* one of the keywords is a substring of the text, whatever the case
MentionsKeyword(t) ==
    \E k \in Keywords : \E i \in 1..Len(t) : MatchesAt(t, i, k)

\* C16: on the heuristic path, for a text without fenced and without braced
\* block, visual is the fixed description exactly when the text holds one of
\* the keywords as a substring in any case, and undefined otherwise;
\* visualSnippet is undefined.
C16_KeywordVisual ==
    (/\ Analyzed /\ HeuristicPath
     /\ ~HasFencedBlock(content) /\ ~HasBracedBlock(content)) =>
        /\ analysis.visualSnippet = None
        /\ IF MentionsKeyword(content)
           THEN analysis.visual = Some(KeywordVisual)
           ELSE analysis.visual = None

\* the keyword was found although the text writes it with a capital
C16_Witness ==
    /\ Analyzed /\ HeuristicPath
    /\ ~HasFencedBlock(content) /\ ~HasBracedBlock(content)
    /\ MentionsKeyword(content)
    /\ ~\E k \in Keywords : Includes(content, k)
    /\ analysis.visual = Some(KeywordVisual)
    /\ analysis.visualSnippet = None

\* the positions where a #word token starts: a # before a word character
TagStarts(t) == {i \in 1..(Len(t) - 1) : t[i] = "#" /\ IsTagChar(t[i + 1])}

\* the #word token that starts at i: the # and the longest run of word
\* characters after it
TagAt(t, i) ==
    SubSeq(t, i, Greatest({j \in (i + 1)..Len(t) :
                              \A k \in (i + 1)..j : IsTagChar(t[k])}))

\* where a lower-cased token occurs first in the text
FirstTagStart(t, tag) ==
    Least({i \in TagStarts(t) : ToLowerCase(TagAt(t, i)) = tag})

\* "#ai", "#productivity"
TagExampleTags ==
    << <<"#", "a", "i">>,
       <<"#", "p", "r", "o", "d", "u", "c", "t", "i", "v", "i", "t", "y">> >>

\* C17: on the heuristic path the tags are the lower-cased #word tokens of the
\* text, each once, in the order of their first occurrence; the example text
\* yields exactly #ai and #productivity.
C17_TagsDistinctLowerCase ==
    (Analyzed /\ HeuristicPath) =>
        /\ IsDefined(analysis.tags)
        /\ LET tags == ValueOf(analysis.tags)
           IN  /\ Range(tags) = {ToLowerCase(TagAt(content, i)) : i \in TagStarts(content)}
               /\ \A a, b \in 1..Len(tags) :
                     a < b => /\ tags[a] # tags[b]
                              /\ FirstTagStart(content, tags[a])
                                    < FirstTagStart(content, tags[b])
               /\ content = TagExampleText => tags = TagExampleTags

\* the example: #AI and #ai collapsed to one tag, before #productivity
C17_Witness ==
    /\ Analyzed /\ HeuristicPath
    /\ content = TagExampleText
    /\ analysis.tags = Some(TagExampleTags)

\* a JavaScript string
IsString(v) == v \in Seq(STRING)

\* an optional string
IsOptionalString(v) == v = None \/ (Len(v) = 1 /\ IsString(v[1]))

\* a StructuredContent: every field is undefined or a string, tags is
\* undefined or a list of strings
IsStructuredContent(v) ==
    /\ DOMAIN v = {"title", "body", "visual", "visualSnippet", "tags"}
    /\ IsOptionalString(v.title)
    /\ IsOptionalString(v.body)
    /\ IsOptionalString(v.visual)
    /\ IsOptionalString(v.visualSnippet)
    /\ v.tags = None
          \/ (Len(v.tags) = 1 /\ \A i \in 1..Len(v.tags[1]) : IsString(v.tags[1][i]))

\* C19: analyzeContent returns a StructuredContent for every string, the
\* empty and the malformed ones included: what extractLabeled hands back and
\* what analyzeContent returns is never an error, and each of its fields is
\* undefined or defined.
C19_AlwaysStructured ==
    /\ analysisPc \in {"start", "extracted", "done"}
    /\ analysisPc \in {"extracted", "done"} => IsStructuredContent(labeled)
    /\ Analyzed => IsStructuredContent(analysis)

\* a text whose fence is not closed was analyzed: no snippet was extracted
C19_Witness ==
    /\ Analyzed
    /\ content = UnclosedFence
    /\ IsStructuredContent(analysis)
    /\ analysis.visualSnippet = None

----------------------------------------------------------------------------
(* C18: estimateReadingTime *)

\* ceil(n / d), in exact arithmetic
CeilingOfQuotient(n, d) == (n + d - 1) \div d

\* max(3, ceil(wordCount * 60 / 200)), in exact arithmetic
ExactReadingTime(wordCount) ==
    IF CeilingOfQuotient(wordCount * 60, 200) > 3
    THEN CeilingOfQuotient(wordCount * 60, 200)
    ELSE 3

\* C18: estimateReadingTime returns max(3, ceil(wordCount * 60 / 200)): an
\* integer that is at least 3 and does not decrease when the word count grows.
C18_ReadingTime ==
    IsDefined(readingTime) =>
        LET wordCount == getWordCount(readingText)
        IN  /\ ValueOf(readingTime) = ExactReadingTime(wordCount)
            /\ ValueOf(readingTime) \in Nat
            /\ ValueOf(readingTime) >= 3
            /\ wordCount > 0 =>
                  ValueOf(readingTime) >= ReadingTimeOf(wordCount - 1)

\* what remains true: the result is an integer, at least 3, within one second
\* of the exact value, and non-decreasing in the word count
C18_ReadingTimeWithinOne ==
    IsDefined(readingTime) =>
        LET wordCount == getWordCount(readingText)
        IN  /\ ValueOf(readingTime) \in Nat
            /\ ValueOf(readingTime) >= 3
            /\ ValueOf(readingTime) - ExactReadingTime(wordCount) \in {0, 1}
            /\ wordCount > 0 =>
                  ValueOf(readingTime) >= ReadingTimeOf(wordCount - 1)

----------------------------------------------------------------------------
(* C20: generateSlides *)

\* the number a sequence of decimal digits stands for
RECURSIVE DecimalValue(_)
DecimalValue(digits) ==
    IF digits = <<>> THEN 0
    ELSE 10 * DecimalValue(SubSeq(digits, 1, Len(digits) - 1))
            + (CHOOSE d \in 0..9 : DecimalDigits[d + 1] = digits[Len(digits)])

\* s is 'slide-' followed by the decimal numeral of i
IsSlideId(s, i) ==
    /\ Len(s) > Len(SlideIdPrefix)
    /\ SubSeq(s, 1, Len(SlideIdPrefix)) = SlideIdPrefix
    /\ LET digits == SubSeq(s, Len(SlideIdPrefix) + 1, Len(s))
       IN  /\ \A k \in 1..Len(digits) : digits[k] \in Range(DecimalDigits)
           /\ Len(digits) > 1 => digits[1] # "0"
           /\ DecimalValue(digits) = i

\* C20: generateSlides maps n chunks to n slide records in the same order;
\* the i-th record holds the i-th chunk, slideNumber i, id 'slide-i',
\* totalSlides n and the given template, so the slide numbers are 1..n and
\* the ids are pairwise distinct.
C20_SlideRecords ==
    IsDefined(generated) =>
        LET made == ValueOf(generated)
            n == Len(textSlides)
        IN  /\ Len(made) = n
            /\ \A i \in 1..n :
                  /\ made[i].content = textSlides[i]
                  /\ made[i].slideNumber = i
                  /\ IsSlideId(made[i].id, i)
                  /\ made[i].totalSlides = n
                  /\ made[i].template = template
            /\ {made[i].slideNumber : i \in 1..n} = 1..n
            /\ \A i, j \in 1..n : i # j => made[i].id # made[j].id

\* ten slides were made, and the tenth is 'slide-10'
C20_Witness ==
    /\ IsDefined(generated)
    /\ Len(textSlides) >= 10
    /\ Len(ValueOf(generated)) = Len(textSlides)
    /\ ValueOf(generated)[10].id = SlideIdPrefix \o <<"1", "0">>
    /\ ValueOf(generated)[10].content = textSlides[10]

----------------------------------------------------------------------------
(* C21 .. C25: splitTextIntoSlides, post-processing and the loop *)

\* the slides handed to post-processing, trimmed, the empty ones left out
TrimmedSlides ==
    SelectSeq([i \in 1..Len(slides) |-> Trim(slides[i])],
              LAMBDA slide : slide # <<>>)

\* a trimmed slide that post-processing has to end with a period
NeedsPeriod(slide) ==
    /\ Len(slide) > 10
    /\ slide[Len(slide)] \notin {".", "!", "?"}
    /\ Len(WordsOf(slide)) >= 3

\* C21: post-processing appends one '.' to a slide exactly when the trimmed
\* slide is longer than 10 characters, does not end in '.', '!' or '?' and has
\* at least 3 words; every other slide is returned trimmed and otherwise
\* unchanged; with minWordsPerSlide >= 1 no non-empty slide is dropped.
C21_PeriodAppended ==
    Done =>
        /\ opts.minWordsPerSlide >= 1 => Len(result) = Len(TrimmedSlides)
        /\ Len(result) = Len(TrimmedSlides) =>
              \A i \in 1..Len(result) :
                  result[i] = IF NeedsPeriod(TrimmedSlides[i])
                              THEN TrimmedSlides[i] \o <<".">>
                              ELSE TrimmedSlides[i]

\* one slide got its period, and another one, which ends a sentence, was
\* returned as it was
C21_Witness ==
    /\ Done
    /\ opts.minWordsPerSlide >= 1
    /\ Len(result) = Len(TrimmedSlides)
    /\ \E i \in 1..Len(result) :
           NeedsPeriod(TrimmedSlides[i]) /\ result[i] = TrimmedSlides[i] \o <<".">>
    /\ \E j \in 1..Len(result) :
           /\ Len(TrimmedSlides[j]) > 10
           /\ ~NeedsPeriod(TrimmedSlides[j])
           /\ result[j] = TrimmedSlides[j]

\* C22: with maxCharacters >= 1 and minWordsPerSlide >= 1, after each
\* sentence the buffer is within maxCharacters or holds at most
\* minWordsPerSlide words; every returned slide has at most minWordsPerSlide
\* words or at most maxCharacters + 1 characters, the last of them being the
\* period that post-processing appended.
C22_LengthOrFewWords ==
    PositiveOptions =>
        /\ pc = "loop" =>
              \/ Len(currentSlide) <= opts.maxCharacters
              \/ Len(WordsOf(currentSlide)) <= opts.minWordsPerSlide
        /\ Done =>
              \A i \in 1..Len(result) :
                  \/ Len(WordsOf(result[i])) <= opts.minWordsPerSlide
                  \/ /\ Len(result[i]) <= opts.maxCharacters + 1
                     /\ Len(result[i]) = opts.maxCharacters + 1 => PeriodAppended(i)

\* a slide of more than minWordsPerSlide words is one character over the
\* limit, by its appended period
C22_Witness ==
    /\ Done /\ PositiveOptions
    /\ \E i \in 1..Len(result) :
           /\ Len(WordsOf(result[i])) > opts.minWordsPerSlide
           /\ Len(result[i]) = opts.maxCharacters + 1
           /\ PeriodAppended(i)

\* C23: a buffer is flushed, at sentence level and at word level, only when
\* it holds at least minWordsPerSlide words: every slide pushed while the loop
\* runs, and every returned slide except the last one, has that many words.
C23_OnlyRemainderShort ==
    /\ pc = "loop" =>
          \A i \in 1..Len(slides) :
              Len(WordsOf(slides[i])) >= opts.minWordsPerSlide
    /\ Done =>
          \A i \in 1..Len(result) :
              i < Len(result) => Len(WordsOf(result[i])) >= opts.minWordsPerSlide

\* one sentence was split by words: the slides flushed hold minWordsPerSlide
\* words, the remainder returned last holds fewer
C23_Witness ==
    /\ Done
    /\ opts.minWordsPerSlide >= 2
    /\ Len(ExtractSentences(text)) = 1
    /\ Len(result) >= 2
    /\ Len(WordsOf(result[1])) >= opts.minWordsPerSlide
    /\ Len(WordsOf(result[Len(result)])) < opts.minWordsPerSlide

\* the words of a list of strings, in order
WordsOfAll(ss) == Flatten([i \in 1..Len(ss) |-> WordsOf(ss[i])])

\* C24: the words of the returned slides, in slide order and without the
\* appended periods, are exactly the words of the extracted sentences in
\* their order; while the loop runs, the slides pushed, the buffer and the
\* sentences still to come hold those words in that order.
C24_WordsInOrder ==
    /\ pc = "loop" =>
          WordsOfAll(slides) \o WordsOf(currentSlide) \o WordsOfAll(sentences)
              = WordsOfAll(ExtractSentences(text))
    /\ Done => OutputWords = WordsOfAll(ExtractSentences(text))

\* a short buffer was merged with the next sentence and split again: a
\* returned slide ends inside a sentence, and the words are all there
C24_Witness ==
    /\ Done
    /\ Len(ExtractSentences(text)) >= 2
    /\ Len(result) >= 2
    /\ \E i \in 1..Len(result) : Unpunctuated(i) \notin SentenceRuns
    /\ OutputWords = WordsOfAll(ExtractSentences(text))

\* C25: a text with a character that is not whitespace, and so every text
\* that validateTextForSlides reports valid, yields at least one slide,
\* whatever maxCharacters and for every minWordsPerSlide >= 0; the empty list
\* is returned for blank texts only.
C25_NonBlankGivesSlide ==
    (Done /\ opts.minWordsPerSlide >= 0) =>
        /\ ~IsBlank(text) => Len(result) >= 1
        /\ validateTextForSlides(text).isValid => Len(result) >= 1
        /\ result = <<>> => IsBlank(text)

\* a text was split under limits of zero, word by word
C25_Witness ==
    /\ Done
    /\ ~IsBlank(text)
    /\ opts.maxCharacters <= 0
    /\ opts.minWordsPerSlide = 0
    /\ Len(result) >= 2

----------------------------------------------------------------------------
(* C26, C27: exportSlidesAsZip *)

Statuses(events) == [k \in 1..Len(events) |-> events[k].status]

\* slides.length + (includeMetadata ? 1 : 0), includeMetadata defaulting to
\* true, written from the arguments of the call
ExpectedTotal ==
    Len(exportedSlides) + (IF includeMetadata = Some(FALSE) THEN 0 ELSE 1)

SuccessfulImages == {k \in 1..Len(imageCalls) : imageCalls[k].ok}

MetadataFiled == \E k \in 1..Len(zipEntries) : zipEntries[k] = MetadataEntry

\* C26: every progress event has total = slides.length + (includeMetadata ?
\* 1 : 0) and 0 <= current <= total; current never decreases from one event
\* to the next and rises by at most one at a time, the last event showing
\* one step per generated slide and one for the metadata file; the
\* 'complete' event has current = total.
C26_ProgressCounts ==
    /\ \A k \in 1..Len(progressEvents) :
          /\ progressEvents[k].total = ExpectedTotal
          /\ 0 <= progressEvents[k].current
          /\ progressEvents[k].current <= progressEvents[k].total
          /\ progressEvents[k].status = "complete" =>
                progressEvents[k].current = progressEvents[k].total
    /\ \A k \in 1..(Len(progressEvents) - 1) :
          /\ progressEvents[k].current <= progressEvents[k + 1].current
          /\ progressEvents[k + 1].current <= progressEvents[k].current + 1
    /\ progressEvents # <<>> =>
          progressEvents[Len(progressEvents)].current =
              Cardinality(SuccessfulImages) + (IF MetadataFiled THEN 1 ELSE 0)

\* Two slides exported with the default includeMetadata: the export is
\* complete with current = total = 3.
C26_Witness ==
    /\ exportPromise = "fulfilled"
    /\ Len(exportedSlides) = 2
    /\ includeMetadata = None
    /\ progressEvents[Len(progressEvents)] = Progress(3, 3, "complete")

SlideFailure == \E k \in 1..Len(imageCalls) : ~imageCalls[k].ok

\* The statuses are some 'generating', then some 'exporting', then either
\* one 'complete' or only 'error'.
StatusesOrdered ==
    LET st == Statuses(progressEvents)
    IN  \A j \in 1..Len(st) : \A k \in (j + 1)..Len(st) :
            /\ st[j] = "exporting" => st[k] # "generating"
            /\ st[j] # "complete"
            /\ st[j] = "error" => st[k] = "error"

\* The calls of generateSlideImage are for the slides 1, 2, ... in order.
ImagesInOrder == \A k \in 1..Len(imageCalls) : imageCalls[k].slide = k

CompleteOnlyWhenDone ==
    (\E k \in 1..Len(progressEvents) :
         progressEvents[k].status = "complete") =>
        /\ Len(imageCalls) = Len(exportedSlides)
        /\ ~SlideFailure
        /\ saveAsCalls = 1
        /\ exportPromise = "fulfilled"

FailFast ==
    SlideFailure =>
        /\ ~imageCalls[Len(imageCalls)].ok
        /\ Cardinality(SuccessfulImages) = Len(imageCalls) - 1
        /\ saveAsCalls = 0
        /\ progressEvents[Len(progressEvents)].status = "error"
        /\ exportPromise = "rejected"

\* C27: the statuses are a run of 'generating', then 'exporting', then one
\* final 'complete', which comes only when every slide image was generated
\* and saveAs was called; once a slide has failed no later slide is
\* generated, saveAs is not called, only 'error' events follow the first
\* 'error', the last event is an 'error' and the promise is rejected, and
\* nothing of this changes afterwards.
C27_FailFastOrdered ==
    /\ [](StatusesOrdered /\ ImagesInOrder /\ CompleteOnlyWhenDone
            /\ FailFast)
    /\ [][SlideFailure =>
            UNCHANGED <<imageCalls, progressEvents, zipEntries, saveAsCalls,
                        exportPromise>>]_vars

\* The second of three slides has failed in an export started by
\* handleExportZip, whose catch has run.
C27_Witness ==
    /\ exportPc = "caught"
    /\ Len(exportedSlides) = 3
    /\ Len(imageCalls) = 2
    /\ SlideFailure
    /\ Statuses(progressEvents)
         = <<"generating", "generating", "generating", "generating",
             "error", "error">>
    /\ exportProgress = FailedProgress

----------------------------------------------------------------------------
(* C28 .. C30: the component App *)

\* The state of the component but for the record of the last handler
appState ==
    <<inputText, validationErrors, selectedTemplate, optionsTemplate,
      appSlides, isGenerating, aiGeneratedContent, showAIContent>>

\* A text the AI service may be called with: not blank, and without
\* validation errors, that is of at least 10 characters and 3 words
GoodForSlides(t) ==
    /\ ~IsBlank(t)
    /\ validateTextForSlides(t).errors = <<>>
    /\ Len(t) >= MinTextLength
    /\ getWordCount(t) >= MinTextWords

ClickOutcomes ==
    {"click: disabled", "handleGenerateSlides: returned",
     "handleGenerateSlides: awaiting"}

\* C28: aiService.generateSlideContent is only called with an inputText
\* that is not blank and has no validation errors (at least 10 characters
\* and 3 words), the state as mounted included; a click on Generate with
\* any other text changes nothing of the state and calls nothing.
C28_OnlyGoodTextGenerated ==
    /\ [](\A k \in 1..Len(pendingCalls) :
            GoodForSlides(pendingCalls[k].inputText))
    /\ [][handled' \in ClickOutcomes =>
            /\ Len(pendingCalls') > Len(pendingCalls) =>
                  /\ GoodForSlides(inputText)
                  /\ pendingCalls'[Len(pendingCalls')].inputText = inputText
            /\ ~GoodForSlides(inputText) =>
                  UNCHANGED <<appState, pendingCalls>>]_vars

\* A call is pending for a good text; the text was then cut down to five
\* characters and Generate clicked again, to no effect.
C28_Witness ==
    /\ Len(pendingCalls) = 1
    /\ pendingCalls[1].inputText = GoodInput
    /\ inputText = ShortInput
    /\ validationErrors # <<>>
    /\ handled = "click: disabled"

\* C29: isGenerating is true exactly while a call of the AI service is
\* pending, and at most one call is pending; every generation ends with
\* isGenerating cleared, when the call resolves and when it rejects; a
\* rejection leaves slides, aiGeneratedContent and showAIContent as they
\* were.
C29_GenerationEnds ==
    /\ [](isGenerating <=> pendingCalls # <<>>)
    /\ [](Len(pendingCalls) <= 1)
    /\ (isGenerating ~> ~isGenerating)
    /\ [][handled' \in {"resolved", "rejected"} => ~isGenerating']_vars
    /\ [][handled' = "rejected" =>
            UNCHANGED <<appSlides, aiGeneratedContent, showAIContent>>]_vars

\* A second generation has been rejected: the slides of the first are still
\* there, and the AI content is still folded as the user had left it.
C29_Witness ==
    /\ handled = "rejected"
    /\ ~isGenerating
    /\ pendingCalls = <<>>
    /\ Len(appSlides) = 2
    /\ IsDefined(aiGeneratedContent)
    /\ ~showAIContent

\* The slides of the state share one template and are numbered 1..n of n.
SlidesUniform ==
    \A k \in 1..Len(appSlides) :
        /\ appSlides[k].template = appSlides[1].template
        /\ appSlides[k].slideNumber = k
        /\ appSlides[k].totalSlides = Len(appSlides)

\* C30: handleTemplateSelect changes selectedTemplate and
\* generationOptions.template and nothing else, the slides in particular; a
\* call records the template selected as Generate is clicked, and as it
\* resolves every slide carries that template while the template selected
\* since then stays selected; the slides of the state always share one
\* template and are numbered 1..n with totalSlides = n.
C30_TemplateSelectFrame ==
    /\ [][handled' = "handleTemplateSelect" =>
            /\ UNCHANGED <<inputText, validationErrors, appSlides,
                           isGenerating, aiGeneratedContent, showAIContent,
                           pendingCalls>>
            /\ optionsTemplate' = selectedTemplate']_vars
    /\ [][Len(pendingCalls') > Len(pendingCalls) =>
            pendingCalls'[Len(pendingCalls')].selectedTemplate
                = selectedTemplate]_vars
    /\ [][(handled' = "resolved" /\ pendingCalls' # pendingCalls) =>
            /\ \A k \in 1..Len(appSlides') :
                  appSlides'[k].template = pendingCalls[1].selectedTemplate
            /\ UNCHANGED <<selectedTemplate, optionsTemplate>>]_vars
    /\ []SlidesUniform

\* Generate was clicked with the default template, another template was
\* selected while the call was pending, and the call has resolved with two
\* slides: they carry the default template.
C30_Witness ==
    /\ handled = "resolved"
    /\ Len(appSlides) = 2
    /\ appSlides[1].template = DEFAULT_TEMPLATE
    /\ appSlides[2].template = DEFAULT_TEMPLATE
    /\ selectedTemplate = [id |-> "bold"]
    /\ optionsTemplate = [id |-> "bold"]

====
